---- MODULE Spec2Model ----
(***************************************************************************)
(* Model of ts-rust-helper's config lifecycle: try_load_config,            *)
(* try_get_schema, json::validate and the ConfigSubcommand handlers.       *)
(* Every file system call of the code is one step of the state machine;    *)
(* the pure stages of a load (parse, resolve schema, validate,             *)
(* deserialize) are one step each, in the order the code runs them.        *)
(***************************************************************************)
EXTENDS Integers, Sequences, FiniteSets, TLC

\* ------------------------------------------------------------------ bounds

\* Longest candidate list ConfigFile::config_file_paths() returns in the model.
MaxCandidates == 2

\* Longest instance path (jsonschema Location) a raw failure carries in the model.
MaxSegments == 3

\* ------------------------------------------------------------ JSON values

\* The paths a candidate list is drawn from.
PathNames == {"a.json", "b.json"}

NoPath == ""

\* A JSON value at a top-level key: absent, a number or a string.
Absent == [t |-> "absent", n |-> 0, s |-> ""]
Num(n) == [t |-> "num", n |-> n, s |-> ""]
Str(s) == [t |-> "str", n |-> 0, s |-> s]

Keys == {"_version", "count", "name"}

DocOf(version, count, name) ==
    [k \in Keys |-> IF k = "_version" THEN version ELSE IF k = "count" THEN count ELSE name]

\* The documents a config file may hold (serde_json::Value objects).
FileDocs ==
    { DocOf(v, c, n) : v \in {Absent, Num(1), Str("v1"), Str("v2"), Str("v9")},
                       c \in {Absent, Num(-1), Num(0)},
                       n \in {Absent, Str("x")} }

\* What a path holds: nothing, an entry whose existence check fails, a file
\* that cannot be read, bytes that are not JSON, or a JSON document.
NoFile == [st |-> "absent", doc |-> DocOf(Absent, Absent, Absent)]
StatErr == [st |-> "staterr", doc |-> DocOf(Absent, Absent, Absent)]
Unreadable == [st |-> "unreadable", doc |-> DocOf(Absent, Absent, Absent)]
Garbage == [st |-> "garbage", doc |-> DocOf(Absent, Absent, Absent)]
JsonFile(d) == [st |-> "json", doc |-> d]

FileStates == {NoFile, StatErr, Unreadable, Garbage} \cup { JsonFile(d) : d \in FileDocs }

\* ------------------------------------------------- the ConfigFile methods

\* ConfigFile::schema: the registry of the embedding application. A schema
\* is the list of required keys and the minimum of `count`.
SchemaVersions == {"v1", "v2"}

NoSchema == [some |-> FALSE, required |-> <<>>, minimum |-> 0]

schema(version) ==
    IF version = "v1" THEN [some |-> TRUE, required |-> <<"count">>, minimum |-> 0]
    ELSE IF version = "v2" THEN [some |-> TRUE, required |-> <<"count", "name">>, minimum |-> 0]
    ELSE NoSchema

\* The typed configuration C.
NoConfig == [version |-> "", count |-> 0, name |-> ""]

DefaultConfig == [version |-> "v2", count |-> 0, name |-> "x"]

\* serde_json::from_value::<C>
Deserialize(doc) ==
    [version |-> doc["_version"].s, count |-> doc["count"].n, name |-> doc["name"].s]

\* serde_json::to_string_pretty(self) as written by ConfigFile::write
Serialize(config) ==
    DocOf(Str(config.version), Num(config.count),
          IF config.name = "" THEN Absent ELSE Str(config.name))

\* ConfigFile::update: the latest-version equivalent and the changed flag.
update(config) ==
    IF config.version = "v2" THEN <<config, FALSE>>
    ELSE <<[version |-> "v2", count |-> config.count,
            name |-> IF config.name = "" THEN "x" ELSE config.name], TRUE>>

\* --------------------------------------------------- try_get_schema

VersionOk(version) == [ok |-> TRUE, kind |-> "", version |-> version]
VersionErr(kind, version) == [ok |-> FALSE, kind |-> kind, version |-> version]

\* Faulty variant: as_str() is tested before the property's presence.
try_get_version_str_first(document) ==
    IF document["_version"].t # "str" THEN VersionErr("NotAString", "")
    ELSE VersionOk(document["_version"].s)

\* Faulty variant: a missing `_version` is read as the empty version string.
try_get_version_default(document) ==
    IF document["_version"].t = "absent" THEN VersionOk("")
    ELSE IF document["_version"].t # "str" THEN VersionErr("NotAString", "")
    ELSE VersionOk(document["_version"].s)

\* The first half of try_get_schema: document.get("_version") and as_str().
try_get_version(document) ==
    IF document["_version"].t = "absent" THEN VersionErr("MissingProperty", "")
    ELSE IF document["_version"].t # "str" THEN VersionErr("NotAString", "")
    ELSE VersionOk(document["_version"].s)

\* The second half: C::schema(version).ok_or(InvalidVersion { version }).
try_get_registered(version) ==
    IF schema(version).some THEN VersionOk(version) ELSE VersionErr("InvalidVersion", version)

\* -------------------------------------------------------------- strings

\* A String is the sequence of its characters. Every character of the model
\* is one byte long in UTF-8 but "é", which is two: byte offsets and character
\* counts differ in a text that holds it.
Digits == <<"0", "1", "2", "3", "4", "5", "6", "7", "8", "9">>

RECURSIVE Decimal(_)
\* format!("{}", n) of an integer
Decimal(n) ==
    IF n < 0 THEN <<"-">> \o Decimal(0 - n)
    ELSE IF n < Len(Digits) THEN <<Digits[n + 1]>>
    ELSE Decimal(n \div Len(Digits)) \o <<Digits[(n % Len(Digits)) + 1]>>

RECURSIVE Concat(_)
\* The concatenation of a sequence of strings.
Concat(parts) == IF parts = <<>> THEN <<>> ELSE Head(parts) \o Concat(Tail(parts))

RECURSIVE Join(_, _)
\* The strings of `parts` with `separator` between them.
Join(parts, separator) ==
    IF Len(parts) <= 1 THEN Concat(parts)
    ELSE Head(parts) \o separator \o Join(Tail(parts), separator)

RECURSIVE len(_)
\* str::len: the length in bytes.
len(s) == IF s = <<>> THEN 0 ELSE (IF Head(s) = "é" THEN 2 ELSE 1) + len(Tail(s))

\* Option<usize>::None of str::find
NotFound == [some |-> FALSE, at |-> 0, chars |-> 0]

\* str::find(pattern): the byte offset `at` of the first match, which stands
\* after `chars` characters.
find(s, pattern) ==
    LET hits == { i \in 0..(Len(s) - Len(pattern)) :
                    SubSeq(s, i + 1, i + Len(pattern)) = pattern }
        first == CHOOSE i \in hits : \A j \in hits : i <= j
    IN  IF hits = {} THEN NotFound
        ELSE [some |-> TRUE, at |-> len(SubSeq(s, 1, first)), chars |-> first]

\* str::lines().nth(0).map_or(String::new(), ..): the text before the first
\* "\n", without the "\r" of a "\r\n" ending; the whole text when it has no
\* "\n" (and the empty string for the empty text).
first_line(s) ==
    LET end == find(s, <<"\n">>) IN
    IF ~end.some THEN s
    ELSE IF end.chars > 0 /\ s[end.chars] = "\r" THEN SubSeq(s, 1, end.chars - 1)
    ELSE SubSeq(s, 1, end.chars)

\* ------------------------------------------------- serde_json::Value texts

JNull == [t |-> "null", n |-> 0, s |-> <<>>, items |-> <<>>]
JNum(n) == [t |-> "num", n |-> n, s |-> <<>>, items |-> <<>>]
JStr(s) == [t |-> "str", n |-> 0, s |-> s, items |-> <<>>]
JArr(items) == [t |-> "arr", n |-> 0, s |-> <<>>, items |-> items]
\* An object lists its members, each a key and a value.
JObj(members) == [t |-> "obj", n |-> 0, s |-> <<>>, items |-> members]

\* The escape serde_json writes for a character of a string.
escape(c) ==
    CASE c = "\"" -> <<"\\", "\"">>
      [] c = "\\" -> <<"\\", "\\">>
      [] c = "\n" -> <<"\\", "n">>
      [] c = "\r" -> <<"\\", "r">>
      [] OTHER -> <<c>>

\* A string as serde_json writes it: quoted, its characters escaped.
quoted(s) == <<"\"">> \o Concat([i \in 1..Len(s) |-> escape(s[i])]) \o <<"\"">>

\* PrettyFormatter's indentation: two spaces per level.
indent(depth) == [i \in 1..(depth + depth) |-> " "]

RECURSIVE pretty(_, _)
\* PrettyFormatter: scalars on one line, an empty container as "[]" or "{}",
\* any other container with one element per line.
pretty(value, depth) ==
    CASE value.t = "null" -> <<"n", "u", "l", "l">>
      [] value.t = "num" -> Decimal(value.n)
      [] value.t = "str" -> quoted(value.s)
      [] value.t = "arr" ->
            IF value.items = <<>> THEN <<"[", "]">>
            ELSE <<"[", "\n">>
                 \o Join([i \in 1..Len(value.items) |->
                            indent(depth + 1) \o pretty(value.items[i], depth + 1)],
                         <<",", "\n">>)
                 \o <<"\n">> \o indent(depth) \o <<"]">>
      [] OTHER ->
            IF value.items = <<>> THEN <<"{", "}">>
            ELSE <<"{", "\n">>
                 \o Join([i \in 1..Len(value.items) |->
                            indent(depth + 1) \o quoted(value.items[i].key) \o <<":", " ">>
                            \o pretty(value.items[i].value, depth + 1)],
                         <<",", "\n">>)
                 \o <<"\n">> \o indent(depth) \o <<"}">>

\* serde_json::to_string_pretty(&value).unwrap_or_default()
to_string_pretty(value) == pretty(value, 0)

\* ------------------------------------------------ jsonschema Location

\* LocationSegment::Property and LocationSegment::Index
Property(name) == [t |-> "property", name |-> name, index |-> 0]
Index(index) == [t |-> "index", name |-> <<>>, index |-> index]

NoLocation == [some |-> FALSE, path |-> <<>>]

\* LocationExtensions::parent: the path without its last segment, None for
\* the empty path.
parent(path) ==
    IF path = <<>> THEN NoLocation
    ELSE [some |-> TRUE, path |-> SubSeq(path, 1, Len(path) - 1)]

\* Faulty variant: an index is rendered without the label of its parent.
pointing_at_flat(path) ==
    IF path = <<>> THEN <<"[", "r", "o", "o", "t", "]">>
    ELSE LET last == path[Len(path)] IN
         IF last.t = "property" THEN last.name
         ELSE <<"[">> \o Decimal(last.index) \o <<"]">>

RECURSIVE pointing_at(_)
\* LocationExtensions::pointing_at
pointing_at(path) ==
    IF path = <<>> THEN <<"[", "r", "o", "o", "t", "]">>
    ELSE LET last == path[Len(path)] IN
         IF last.t = "property" THEN last.name
         ELSE IF parent(path).some
              THEN pointing_at(parent(path).path) \o <<"[">> \o Decimal(last.index) \o <<"]">>
              ELSE <<"[">> \o Decimal(last.index) \o <<"]">>

\* Faulty variant: the key of a property is left out.
reconstruct_keyless(path, value) == to_string_pretty(value)

\* LocationExtensions::reconstruct: the property name goes between quotes as
\* it is, the value is pretty-printed.
reconstruct(path, value) ==
    LET key == IF path # <<>> /\ path[Len(path)].t = "property"
               THEN <<"\"">> \o path[Len(path)].name \o <<"\"", ":", " ">>
               ELSE <<>>
    IN  key \o to_string_pretty(value)

\* ------------------------------------------------ the positioned tree

\* PositionedJsonNode: a value of the file's text with the line and column
\* where it starts; an object holds its members, an array its elements.
Scalar(line, column) ==
    [kind |-> "scalar", position |-> [line |-> line, column |-> column], children |-> <<>>]
Array(line, column, elements) ==
    [kind |-> "array", position |-> [line |-> line, column |-> column], children |-> elements]
Object(line, column, members) ==
    [kind |-> "object", position |-> [line |-> line, column |-> column], children |-> members]

NoNode == [some |-> FALSE, node |-> Scalar(0, 0)]

RECURSIVE evaluate(_, _)
\* PositionedJsonNode::evaluate: one segment at a time; a Property needs an
\* object with that key, an Index an array with that ordinal.
evaluate(node, path) ==
    IF path = <<>> THEN [some |-> TRUE, node |-> node]
    ELSE LET segment == Head(path)
             named == { i \in 1..Len(node.children) : node.children[i].key = segment.name }
         IN  IF segment.t = "property"
             THEN IF node.kind = "object" /\ named # {}
                  THEN evaluate(node.children[CHOOSE i \in named : \A j \in named : j <= i].value,
                                Tail(path))
                  ELSE NoNode
             ELSE IF node.kind = "array" /\ segment.index < Len(node.children)
                  THEN evaluate(node.children[segment.index + 1], Tail(path))
                  ELSE NoNode

\* ------------------------------------- ValidationProblem::new (problem.rs)

\* Option<PathBuf> and Option<&PositionedJsonNode>
NoFilePath == [some |-> FALSE, path |-> NoPath]
SomeFilePath(path) == [some |-> TRUE, path |-> path]
NoDocument == [some |-> FALSE, root |-> Scalar(0, 0)]
SomeDocument(root) == [some |-> TRUE, root |-> root]

\* Option<Position> and Option<FileLocation>
NoPosition == [some |-> FALSE, line |-> 0, column |-> 0]
SomePosition(position) == [some |-> TRUE, line |-> position.line, column |-> position.column]
NoFileLocation == [some |-> FALSE, path |-> NoPath, position |-> NoPosition]

\* The source line: the first line of the reconstruction.
new_source(instance_path, instance) == first_line(reconstruct(instance_path, instance))

\* The range to underline: from two bytes past the first ": " of the source,
\* or from its start when it has none, to its end.
new_range(source) ==
    [start |-> IF find(source, <<":", " ">>).some THEN find(source, <<":", " ">>).at + 2 ELSE 0,
     end |-> len(source)]

\* Faulty variant: a file path alone is enough for a position-less location.
new_location_path_only(document, file_path, instance_path) ==
    IF file_path.some
    THEN [some |-> TRUE, path |-> file_path.path,
          position |-> IF document.some /\ evaluate(document.root, instance_path).some
                       THEN SomePosition(evaluate(document.root, instance_path).node.position)
                       ELSE NoPosition]
    ELSE NoFileLocation

\* The location: present when both the document and the file path are.
new_location(document, file_path, instance_path) ==
    IF document.some /\ file_path.some
    THEN [some |-> TRUE, path |-> file_path.path,
          position |-> IF evaluate(document.root, instance_path).some
                       THEN SomePosition(evaluate(document.root, instance_path).node.position)
                       ELSE NoPosition]
    ELSE NoFileLocation

\* char::to_lowercase, for the characters of the model.
to_lowercase(c) == IF c = "M" THEN "m" ELSE c

RECURSIVE split(_, _)
\* str::split(separator): the pieces between the separators, empty ones too.
split(s, separator) ==
    IF find(s, <<separator>>).some
    THEN <<SubSeq(s, 1, find(s, <<separator>>).chars)>>
         \o split(SubSeq(s, find(s, <<separator>>).chars + 2, Len(s)), separator)
    ELSE <<s>>

\* A schema of the model holds one `description`, in the object at the
\* pointer `at`; schema.pointer(..) finds it there and nothing anywhere else.
NoValue == [some |-> FALSE, value |-> JNull]
pointer(schema_value, at) ==
    IF schema_value.description.some /\ at = schema_value.at \o <<"description">>
    THEN schema_value.description
    ELSE NoValue

\* The notes: from the string `description` of the parent of the schema path.
\* Its first line follows "this should be " with its first character
\* lowercased (the character NUL, written "NUL" here, when the line is
\* empty); every further line is pushed as it is.
new_notes(schema_value, schema_path) ==
    LET node == pointer(schema_value, parent(schema_path).path \o <<"description">>)
        lines == split(node.value.s, "\n")
        first == IF lines[1] = <<>> THEN <<"NUL">>
                 ELSE <<to_lowercase(lines[1][1])>> \o Tail(lines[1])
    IN  IF parent(schema_path).some /\ node.some /\ node.value.t = "str"
        THEN <<<<"t", "h", "i", "s", " ", "s", "h", "o", "u", "l", "d", " ", "b", "e", " ">>
               \o first>> \o Tail(lines)
        ELSE <<>>

\* ValidationProblem::new of json/problem.rs
ValidationProblem_new(problem, schema_value, document, file_path) ==
    [location |-> new_location(document, file_path, problem.instance_path),
     kind |-> problem.kind,
     notes |-> new_notes(schema_value, problem.schema_path),
     instance_path |-> problem.instance_path,
     source |-> new_source(problem.instance_path, problem.instance),
     range |-> new_range(new_source(problem.instance_path, problem.instance))]

\* ------------------------------------------- the validation engine

\* The characters of the keys and strings the config documents hold.
Chars(s) ==
    CASE s = "_version" -> <<"_", "v", "e", "r", "s", "i", "o", "n">>
      [] s = "count" -> <<"c", "o", "u", "n", "t">>
      [] s = "name" -> <<"n", "a", "m", "e">>
      [] s = "v1" -> <<"v", "1">>
      [] s = "v2" -> <<"v", "2">>
      [] s = "v9" -> <<"v", "9">>
      [] s = "x" -> <<"x">>
      [] OTHER -> <<>>

\* The serde_json::Value of a top-level value of a document.
ValueOf(v) == IF v.t = "num" THEN JNum(v.n) ELSE JStr(Chars(v.s))

\* The serde_json::Value of a document: an object of the keys present, in
\* the order of serde_json's map.
ObjectOf(document) ==
    JObj(SelectSeq([i \in 1..3 |->
                      [key |-> Chars(<<"_version", "count", "name">>[i]),
                       value |-> ValueOf(document[<<"_version", "count", "name">>[i]]),
                       present |-> document[<<"_version", "count", "name">>[i]].t # "absent"]],
                   LAMBDA member : member.present))

\* jsonschema::ValidationError { instance, kind, instance_path, schema_path }
RawFailure(kind, property, limit, instance, instance_path, schema_path) ==
    [kind |-> [name |-> kind, property |-> property, limit |-> limit],
     instance |-> instance, instance_path |-> instance_path, schema_path |-> schema_path]

\* validator.iter_errors(instance): the failures of `properties`, then one
\* failure per missing key of `required`, in the schema's order.
iter_errors(s, instance) ==
    LET minimum ==
            IF instance["count"].t = "num" /\ instance["count"].n < s.minimum
            THEN <<RawFailure("Minimum", "", s.minimum, ValueOf(instance["count"]),
                              <<Property(Chars("count"))>>,
                              <<"properties", "count", "minimum">>)>>
            ELSE <<>>
        required ==
            [i \in 1..Len(s.required) |->
                RawFailure("Required", s.required[i], 0, ObjectOf(instance), <<>>,
                           <<"required">>)]
    IN  minimum \o SelectSeq(required, LAMBDA f : instance[f.kind.property].t = "absent")

is_valid(s, instance) == iter_errors(s, instance) = <<>>

\* ----------------------------------------------------- json::validate

\* The key prefix of the source line and the range to underline, by the last
\* segment of the instance path: the range is the prefix without its ": ".
key_and_range(instance_path) ==
    IF instance_path = <<>> THEN [key |-> <<>>, range |-> [start |-> 0, end |-> 1]]
    ELSE LET last == instance_path[Len(instance_path)]
             key == IF last.t = "property"
                    THEN <<"\"">> \o last.name \o <<"\"", ":", " ">>
                    ELSE <<"[">> \o Decimal(last.index) \o <<"]", ":", " ">>
         IN  [key |-> key, range |-> [start |-> 0, end |-> len(key) - 2]]

\* ValidationProblem::new of json.rs, the one json::validate calls for
\* try_load_config: the problem holds the file path and no position.
ValidationProblemNew(problem, file_path) ==
    [file_path |-> file_path, kind |-> problem.kind, instance_path |-> problem.instance_path,
     source |-> first_line(key_and_range(problem.instance_path).key
                           \o to_string_pretty(problem.instance)),
     range |-> key_and_range(problem.instance_path).range]

\* The position a problem of json.rs carries: its struct has the file path
\* and no line or column.
position_of(problem) == NoPosition

NoErrors == [file_path |-> NoPath, problems |-> <<>>]

\* Faulty variant: only the first failure of the engine is reported.
validate_first_only(s, instance, file_path) ==
    IF ~is_valid(s, instance)
    THEN [file_path |-> file_path,
          problems |-> <<ValidationProblemNew(iter_errors(s, instance)[1], file_path)>>]
    ELSE NoErrors

\* Ok(()) is NoErrors; Err(ValidationErrors) holds at least one problem.
validate(s, instance, file_path) ==
    IF ~is_valid(s, instance)
    THEN [file_path |-> file_path,
          problems |-> [i \in 1..Len(iter_errors(s, instance)) |->
                          ValidationProblemNew(iter_errors(s, instance)[i], file_path)]]
    ELSE NoErrors

\* ------------------------------------------------------------- results

\* Result<C, LoadConfigError>, or the panic of an unwrap / expect.
NoLoadResult ==
    [tag |-> "None", kind |-> "", path |-> NoPath, version_kind |-> "", version |-> "",
     error_count |-> 0, source |-> NoErrors, config |-> NoConfig]

LoadOk(config) == [NoLoadResult EXCEPT !.tag = "Ok", !.config = config]
LoadPanic == [NoLoadResult EXCEPT !.tag = "Panic"]
FileNotFound(path) == [NoLoadResult EXCEPT !.tag = "Err", !.kind = "FileNotFound", !.path = path]
ReadError(path) == [NoLoadResult EXCEPT !.tag = "Err", !.kind = "ReadError", !.path = path]
InvalidJson(path) == [NoLoadResult EXCEPT !.tag = "Err", !.kind = "InvalidJson", !.path = path]
VersionError(path, e) ==
    [NoLoadResult EXCEPT !.tag = "Err", !.kind = "VersionError", !.path = path,
                         !.version_kind = e.kind, !.version = e.version]
ValidationError(path, errors) ==
    [NoLoadResult EXCEPT !.tag = "Err", !.kind = "ValidationError", !.path = path,
                         !.error_count = Len(errors.problems), !.source = errors]

\* Result<(C, bool), UpdateError>, Result<C, InitError>, Result<C, ResetError>.
NoResult == [tag |-> "None", kind |-> "", config |-> NoConfig, updated |-> FALSE]
CmdOk(config, updated) == [NoResult EXCEPT !.tag = "Ok", !.config = config, !.updated = updated]
CmdErr(kind) == [NoResult EXCEPT !.tag = "Err", !.kind = kind]
CmdPanic == [NoResult EXCEPT !.tag = "Panic"]

\* --------------------------------------------------------------- state

Procs == {"main", "reader"}

VARIABLES
    paths,        \* ConfigFile::config_file_paths()
    write_path,   \* the path ConfigFile::write writes to
    fs,           \* the file system: what each path holds
    proc,         \* per process: the call it runs and that call's locals
    args,         \* the arguments of a call of one of the pure functions
    built         \* what that call returned

vars == <<paths, write_path, fs, proc, args, built>>

\* No pure function is being called.
NoCall == [fn |-> "none"]

Event(ev, arg) == [ev |-> ev, arg |-> arg]

\* The locals of a call that has not started.
Idle ==
    [op |-> "idle", pc |-> "Done", idx |-> 1, config_path |-> NoPath,
     contents |-> NoFile, raw_config |-> NoFile.doc, version |-> "", schema |-> NoSchema,
     load_result |-> NoLoadResult, new_config |-> NoConfig, updated |-> FALSE,
     result |-> NoResult, log |-> <<>>, fs0 |-> [q \in PathNames |-> NoFile]]

FirstPc(op) ==
    CASE op = "load" -> "Discover"
      [] op = "update" -> "Discover"
      [] op = "init" -> IF paths = <<>> THEN "InitWrite" ELSE "InitCheck"
      [] op = "reset" -> IF paths = <<>> THEN "ResetWrite" ELSE "ResetCheck"
      [] OTHER -> "Done"

\* A call of `op` entered with the file system `files`.
Entered(op, files) == [Idle EXCEPT !.op = op, !.pc = FirstPc(op), !.fs0 = files]

CandidateLists == UNION { [1..n -> PathNames] : n \in 0..MaxCandidates }

Range(seq) == { seq[i] : i \in 1..Len(seq) }

Set(p, locals) == proc' = [proc EXCEPT ![p] = locals] /\ UNCHANGED <<args, built>>

\* try_load_config returns (or panics): a plain load is over, an update goes on.
LoadReturns(s, r, events) ==
    [s EXCEPT !.load_result = r,
              !.log = s.log \o events,
              !.pc = IF s.op = "update" THEN "Update" ELSE "Done"]

\* ------------------------------------------- try_load_config, step by step

\* Faulty variant: the discovery loop has no `break`, the last existing candidate wins.
Discover_no_break(p) ==
    LET s == proc[p] IN
    /\ s.pc = "Discover"
    /\ IF s.idx > Len(paths)
       THEN IF s.config_path # NoPath
            THEN Set(p, [s EXCEPT !.pc = "Read"])
            ELSE IF paths = <<>>
                 THEN Set(p, LoadReturns(s, LoadPanic, <<>>))
                 ELSE Set(p, LoadReturns(s, FileNotFound(paths[Len(paths)]), <<>>))
       ELSE LET candidate == paths[s.idx]
                seen == <<Event("exists", candidate)>>
            IN  CASE fs[candidate].st = "staterr" ->
                       Set(p, LoadReturns(s, ReadError(candidate), seen))
                  [] fs[candidate].st = "absent" ->
                       Set(p, [s EXCEPT !.idx = s.idx + 1, !.log = s.log \o seen])
                  [] OTHER ->
                       Set(p, [s EXCEPT !.config_path = candidate, !.idx = s.idx + 1,
                                        !.log = s.log \o seen])
    /\ UNCHANGED <<paths, write_path, fs>>

\* Faulty variant: an empty candidate list is reported as a file not found.
Discover_empty_not_found(p) ==
    LET s == proc[p] IN
    /\ s.pc = "Discover"
    /\ IF s.idx > Len(paths)
       THEN IF paths = <<>>
            THEN Set(p, LoadReturns(s, FileNotFound(NoPath), <<>>))
            ELSE Set(p, LoadReturns(s, FileNotFound(paths[Len(paths)]), <<>>))
       ELSE LET candidate == paths[s.idx]
                seen == <<Event("exists", candidate)>>
            IN  CASE fs[candidate].st = "staterr" ->
                       Set(p, LoadReturns(s, ReadError(candidate), seen))
                  [] fs[candidate].st = "absent" ->
                       Set(p, [s EXCEPT !.idx = s.idx + 1, !.log = s.log \o seen])
                  [] OTHER ->
                       Set(p, [s EXCEPT !.config_path = candidate, !.pc = "Read",
                                        !.log = s.log \o seen])
    /\ UNCHANGED <<paths, write_path, fs>>

\* Faulty variant: FileNotFound reports the first candidate instead of the last.
Discover_reports_first(p) ==
    LET s == proc[p] IN
    /\ s.pc = "Discover"
    /\ IF s.idx > Len(paths)
       THEN IF paths = <<>>
            THEN Set(p, LoadReturns(s, LoadPanic, <<>>))
            ELSE Set(p, LoadReturns(s, FileNotFound(paths[1]), <<>>))
       ELSE LET candidate == paths[s.idx]
                seen == <<Event("exists", candidate)>>
            IN  CASE fs[candidate].st = "staterr" ->
                       Set(p, LoadReturns(s, ReadError(candidate), seen))
                  [] fs[candidate].st = "absent" ->
                       Set(p, [s EXCEPT !.idx = s.idx + 1, !.log = s.log \o seen])
                  [] OTHER ->
                       Set(p, [s EXCEPT !.config_path = candidate, !.pc = "Read",
                                        !.log = s.log \o seen])
    /\ UNCHANGED <<paths, write_path, fs>>

\* One turn of the discovery loop: fs::exists on the next candidate, or the
\* end of the loop with no path found.
Discover(p) ==
    LET s == proc[p] IN
    /\ s.pc = "Discover"
    /\ IF s.idx > Len(paths)
       THEN IF paths = <<>>
            THEN Set(p, LoadReturns(s, LoadPanic, <<>>))
            ELSE Set(p, LoadReturns(s, FileNotFound(paths[Len(paths)]), <<>>))
       ELSE LET candidate == paths[s.idx]
                seen == <<Event("exists", candidate)>>
            IN  CASE fs[candidate].st = "staterr" ->
                       Set(p, LoadReturns(s, ReadError(candidate), seen))
                  [] fs[candidate].st = "absent" ->
                       Set(p, [s EXCEPT !.idx = s.idx + 1, !.log = s.log \o seen])
                  [] OTHER ->
                       Set(p, [s EXCEPT !.config_path = candidate, !.pc = "Read",
                                        !.log = s.log \o seen])
    /\ UNCHANGED <<paths, write_path, fs>>

\* Faulty variant: a failed read falls back to the next candidate.
Read_falls_back(p) ==
    LET s == proc[p]
        attempt == <<Event("read", s.config_path)>>
    IN
    /\ s.pc = "Read"
    /\ IF fs[s.config_path].st \in {"garbage", "json"}
       THEN Set(p, [s EXCEPT !.contents = fs[s.config_path], !.pc = "Parse",
                             !.log = s.log \o attempt])
       ELSE Set(p, [s EXCEPT !.config_path = NoPath, !.idx = s.idx + 1, !.pc = "Discover",
                             !.log = s.log \o attempt])
    /\ UNCHANGED <<paths, write_path, fs>>

\* fs::read(&config_path)
Read(p) ==
    LET s == proc[p]
        attempt == <<Event("read", s.config_path)>>
    IN
    /\ s.pc = "Read"
    /\ IF fs[s.config_path].st \in {"garbage", "json"}
       THEN Set(p, [s EXCEPT !.contents = fs[s.config_path], !.pc = "Parse",
                             !.log = s.log \o attempt])
       ELSE Set(p, LoadReturns(s, ReadError(s.config_path), attempt))
    /\ UNCHANGED <<paths, write_path, fs>>

\* serde_json::from_slice(&contents)
Parse(p) ==
    LET s == proc[p]
        stage == <<Event("parse", s.config_path)>>
    IN
    /\ s.pc = "Parse"
    /\ IF s.contents.st = "json"
       THEN Set(p, [s EXCEPT !.raw_config = s.contents.doc, !.pc = "Version",
                             !.log = s.log \o stage])
       ELSE Set(p, LoadReturns(s, InvalidJson(s.config_path), stage))
    /\ UNCHANGED <<paths, write_path, fs>>

\* try_get_schema up to the version string.
Version(p) ==
    LET s == proc[p]
        v == try_get_version(s.raw_config)
        stage == <<Event("version", s.config_path)>>
    IN
    /\ s.pc = "Version"
    /\ IF v.ok
       THEN Set(p, [s EXCEPT !.version = v.version, !.pc = "Schema", !.log = s.log \o stage])
       ELSE Set(p, LoadReturns(s, VersionError(s.config_path, v), stage))
    /\ UNCHANGED <<paths, write_path, fs>>

\* try_get_schema from C::schema(version) on.
Schema(p) ==
    LET s == proc[p]
        v == try_get_registered(s.version)
        call == <<Event("schema", s.version)>>
    IN
    /\ s.pc = "Schema"
    /\ IF v.ok
       THEN Set(p, [s EXCEPT !.schema = schema(s.version), !.pc = "Validate",
                             !.log = s.log \o call])
       ELSE Set(p, LoadReturns(s, VersionError(s.config_path, v), call))
    /\ UNCHANGED <<paths, write_path, fs>>

\* Faulty variant: validation problems are recorded but the load goes on.
Validate_continues(p) ==
    LET s == proc[p]
        errors == validate(s.schema, s.raw_config, s.config_path)
        stage == <<Event("validate", s.config_path)>>
    IN
    /\ s.pc = "Validate"
    /\ Set(p, [s EXCEPT !.pc = "Deserialize", !.log = s.log \o stage,
                        !.load_result = IF errors = NoErrors THEN NoLoadResult
                                        ELSE ValidationError(s.config_path, errors)])
    /\ UNCHANGED <<paths, write_path, fs>>

\* json::validate(&schema, &raw_config, .., Some(config_path), ..)
Validate(p) ==
    LET s == proc[p]
        errors == validate(s.schema, s.raw_config, s.config_path)
        stage == <<Event("validate", s.config_path)>>
    IN
    /\ s.pc = "Validate"
    /\ IF errors = NoErrors
       THEN Set(p, [s EXCEPT !.pc = "Deserialize", !.log = s.log \o stage])
       ELSE Set(p, LoadReturns(s, ValidationError(s.config_path, errors), stage))
    /\ UNCHANGED <<paths, write_path, fs>>

\* serde_json::from_value(raw_config).expect(..)
DeserializeConfig(p) ==
    LET s == proc[p]
        stage == <<Event("deserialize", s.config_path)>>
    IN
    /\ s.pc = "Deserialize"
    /\ IF s.raw_config["_version"].t = "str" /\ s.raw_config["count"].t = "num"
       THEN Set(p, LoadReturns(s, LoadOk(Deserialize(s.raw_config)), stage))
       ELSE Set(p, LoadReturns(s, LoadPanic, stage))
    /\ UNCHANGED <<paths, write_path, fs>>

LoadStep(p) ==
    \/ Discover(p)
    \/ Read(p)
    \/ Parse(p)
    \/ Version(p)
    \/ Schema(p)
    \/ Validate(p)
    \/ DeserializeConfig(p)

\* Faulty variant: the candidate iterator outlives the call, a later call
\* resumes after the candidates already visited.
Call_resumes(p) ==
    LET s == proc[p] IN
    /\ s.pc = "Done"
    /\ s.op \in {"idle", "load"}
    /\ Set(p, [Entered("load", fs) EXCEPT !.idx = IF s.op = "load" THEN s.idx + 1 ELSE 1])
    /\ UNCHANGED <<paths, write_path, fs>>

\* A further call of try_load_config: every local starts afresh, nothing of
\* an earlier call is kept.
Call(p) ==
    LET s == proc[p] IN
    /\ s.pc = "Done"
    /\ s.op \in {"idle", "load"}
    /\ Set(p, Entered("load", fs))
    /\ UNCHANGED <<paths, write_path, fs>>

\* ------------------------------------------------ the ConfigFile file calls

\* The file ConfigFile::delete removes: the one the config was loaded from,
\* the first candidate present.
delete_target(files) ==
    IF \E i \in 1..Len(paths) : files[paths[i]].st # "absent"
    THEN paths[CHOOSE i \in 1..Len(paths) :
                  /\ files[paths[i]].st # "absent"
                  /\ \A j \in 1..(i - 1) : files[paths[j]].st = "absent"]
    ELSE NoPath

\* fs::remove_file can succeed on an entry that is there and reachable.
CanRemove(files, path) == path # NoPath /\ files[path].st \notin {"absent", "staterr"}

\* fs::write can succeed where the path is reachable.
CanWrite(files, path) == files[path].st # "staterr"

\* The log after a file call: the call, then the I/O error if it failed.
Called(log, ev, arg, succeeded) ==
    log \o <<Event(ev, arg)>> \o (IF succeeded THEN <<>> ELSE <<Event("io_error", arg)>>)

Removed(files, path) == [files EXCEPT ![path] = NoFile]

Written(files, path, config) == [files EXCEPT ![path] = JsonFile(Serialize(config))]

\* ------------------------------------------------ ConfigSubcommand::update

\* Faulty variant: the changed flag is not tested, every update migrates.
Update_always_migrates(p) ==
    LET s == proc[p]
        u == update(s.load_result.config)
    IN
    /\ s.pc = "Update"
    /\ CASE s.load_result.tag = "Panic" ->
              Set(p, [s EXCEPT !.result = CmdPanic, !.pc = "Done"])
         [] s.load_result.tag = "Err" ->
              Set(p, [s EXCEPT !.result = CmdErr("LoadConfig"), !.pc = "Done"])
         [] OTHER ->
              Set(p, [s EXCEPT !.new_config = u[1], !.updated = u[2], !.pc = "Delete",
                               !.log = Append(s.log, Event("update", "changed"))])
    /\ UNCHANGED <<paths, write_path, fs>>

\* The return of try_load_config inside update, and old_config.update().
Update(p) ==
    LET s == proc[p]
        u == update(s.load_result.config)
    IN
    /\ s.pc = "Update"
    /\ CASE s.load_result.tag = "Panic" ->
              Set(p, [s EXCEPT !.result = CmdPanic, !.pc = "Done"])
         [] s.load_result.tag = "Err" ->
              Set(p, [s EXCEPT !.result = CmdErr("LoadConfig"), !.pc = "Done"])
         [] OTHER ->
              IF u[2]
              THEN Set(p, [s EXCEPT !.new_config = u[1], !.updated = TRUE, !.pc = "Delete",
                                    !.log = Append(s.log, Event("update", "changed"))])
              ELSE Set(p, [s EXCEPT !.new_config = u[1], !.updated = FALSE, !.pc = "Done",
                                    !.result = CmdOk(u[1], FALSE),
                                    !.log = Append(s.log, Event("update", "unchanged"))])
    /\ UNCHANGED <<paths, write_path, fs>>

\* Faulty variant: the result of delete() is dropped, the write follows a failed delete.
Delete_ignores_failure(p) ==
    LET s == proc[p]
        target == delete_target(fs)
    IN
    /\ s.pc = "Delete"
    /\ \E ok \in BOOLEAN :
          IF ok /\ CanRemove(fs, target)
          THEN /\ fs' = Removed(fs, target)
               /\ Set(p, [s EXCEPT !.pc = "Write", !.log = Called(s.log, "delete", target, TRUE)])
          ELSE /\ fs' = fs
               /\ Set(p, [s EXCEPT !.pc = "Write", !.log = Called(s.log, "delete", target, FALSE)])
    /\ UNCHANGED <<paths, write_path>>

\* Faulty variant: the old file is left in place for the write to replace.
Delete_keeps_file(p) ==
    LET s == proc[p]
        target == delete_target(fs)
    IN
    /\ s.pc = "Delete"
    /\ \E ok \in BOOLEAN :
          IF ok /\ CanRemove(fs, target)
          THEN /\ fs' = fs
               /\ Set(p, [s EXCEPT !.pc = "Write", !.log = Called(s.log, "delete", target, TRUE)])
          ELSE /\ fs' = fs
               /\ Set(p, [s EXCEPT !.pc = "Done", !.log = Called(s.log, "delete", target, FALSE),
                                   !.result = CmdErr("DeleteConfig")])
    /\ UNCHANGED <<paths, write_path>>

\* old_config.delete()
Delete(p) ==
    LET s == proc[p]
        target == delete_target(fs)
    IN
    /\ s.pc = "Delete"
    /\ \E ok \in BOOLEAN :
          IF ok /\ CanRemove(fs, target)
          THEN /\ fs' = Removed(fs, target)
               /\ Set(p, [s EXCEPT !.pc = "Write", !.log = Called(s.log, "delete", target, TRUE)])
          ELSE /\ fs' = fs
               /\ Set(p, [s EXCEPT !.pc = "Done", !.log = Called(s.log, "delete", target, FALSE),
                                   !.result = CmdErr("DeleteConfig")])
    /\ UNCHANGED <<paths, write_path>>

\* Faulty variant: a failed write is reported as a failed delete.
Write_reports_delete(p) ==
    LET s == proc[p]
    IN
    /\ s.pc = "Write"
    /\ \E ok \in BOOLEAN :
          IF ok /\ CanWrite(fs, write_path)
          THEN /\ fs' = Written(fs, write_path, s.new_config)
               /\ Set(p, [s EXCEPT !.pc = "Done", !.log = Called(s.log, "write", write_path, TRUE),
                                   !.result = CmdOk(s.new_config, TRUE)])
          ELSE /\ fs' = fs
               /\ Set(p, [s EXCEPT !.pc = "Done", !.log = Called(s.log, "write", write_path, FALSE),
                                   !.result = CmdErr("DeleteConfig")])
    /\ UNCHANGED <<paths, write_path>>

\* new_config.write()
Write(p) ==
    LET s == proc[p]
    IN
    /\ s.pc = "Write"
    /\ \E ok \in BOOLEAN :
          IF ok /\ CanWrite(fs, write_path)
          THEN /\ fs' = Written(fs, write_path, s.new_config)
               /\ Set(p, [s EXCEPT !.pc = "Done", !.log = Called(s.log, "write", write_path, TRUE),
                                   !.result = CmdOk(s.new_config, TRUE)])
          ELSE /\ fs' = fs
               /\ Set(p, [s EXCEPT !.pc = "Done", !.log = Called(s.log, "write", write_path, FALSE),
                                   !.result = CmdErr("WriteConfig")])
    /\ UNCHANGED <<paths, write_path>>

\* -------------------------------------------------- ConfigSubcommand::init

\* The loop goes to the next candidate, or ends.
Advance(s, loop, exit) ==
    [s EXCEPT !.idx = s.idx + 1, !.pc = IF s.idx + 1 > Len(paths) THEN exit ELSE loop]

\* Faulty variant: an existing candidate does not stop init.
InitCheck_overwrites(p) ==
    LET s == proc[p]
        path == paths[s.idx]
        seen == Append(s.log, Event("exists", path))
    IN
    /\ s.pc = "InitCheck"
    /\ CASE fs[path].st = "staterr" ->
              Set(p, [s EXCEPT !.pc = "Done", !.log = seen,
                               !.result = CmdErr("CheckPathExists")])
         [] OTHER ->
              Set(p, [Advance(s, "InitCheck", "InitWrite") EXCEPT !.log = seen])
    /\ UNCHANGED <<paths, write_path, fs>>

\* path.try_exists() in the loop of init
InitCheck(p) ==
    LET s == proc[p]
        path == paths[s.idx]
        seen == Append(s.log, Event("exists", path))
    IN
    /\ s.pc = "InitCheck"
    /\ CASE fs[path].st = "staterr" ->
              Set(p, [s EXCEPT !.pc = "Done", !.log = seen,
                               !.result = CmdErr("CheckPathExists")])
         [] fs[path].st = "absent" ->
              Set(p, [Advance(s, "InitCheck", "InitWrite") EXCEPT !.log = seen])
         [] OTHER ->
              Set(p, [s EXCEPT !.pc = "Done", !.log = seen,
                               !.result = CmdErr("AlreadyInitialised")])
    /\ UNCHANGED <<paths, write_path, fs>>

\* C::default().write() in init
InitWrite(p) ==
    LET s == proc[p]
    IN
    /\ s.pc = "InitWrite"
    /\ \E ok \in BOOLEAN :
          IF ok /\ CanWrite(fs, write_path)
          THEN /\ fs' = Written(fs, write_path, DefaultConfig)
               /\ Set(p, [s EXCEPT !.pc = "Done", !.log = Called(s.log, "write", write_path, TRUE),
                                   !.result = CmdOk(DefaultConfig, FALSE)])
          ELSE /\ fs' = fs
               /\ Set(p, [s EXCEPT !.pc = "Done", !.log = Called(s.log, "write", write_path, FALSE),
                                   !.result = CmdErr("WriteConfig")])
    /\ UNCHANGED <<paths, write_path>>

\* ------------------------------------------------- ConfigSubcommand::reset

\* path.try_exists() in the loop of reset
ResetCheck(p) ==
    LET s == proc[p]
        path == paths[s.idx]
        seen == Append(s.log, Event("exists", path))
    IN
    /\ s.pc = "ResetCheck"
    /\ CASE fs[path].st = "staterr" ->
              Set(p, [s EXCEPT !.pc = "Done", !.log = seen,
                               !.result = CmdErr("CheckPathExists")])
         [] fs[path].st = "absent" ->
              Set(p, [Advance(s, "ResetCheck", "ResetWrite") EXCEPT !.log = seen])
         [] OTHER ->
              Set(p, [s EXCEPT !.pc = "ResetRemove", !.log = seen])
    /\ UNCHANGED <<paths, write_path, fs>>

\* Faulty variant: a failed removal is skipped and the loop goes on.
ResetRemove_skips_failure(p) ==
    LET s == proc[p]
        path == paths[s.idx]
    IN
    /\ s.pc = "ResetRemove"
    /\ \E ok \in BOOLEAN :
          IF ok /\ CanRemove(fs, path)
          THEN /\ fs' = Removed(fs, path)
               /\ Set(p, [Advance(s, "ResetCheck", "ResetWrite") EXCEPT !.log = Called(s.log, "delete", path, TRUE)])
          ELSE /\ fs' = fs
               /\ Set(p, [Advance(s, "ResetCheck", "ResetWrite") EXCEPT !.log = Called(s.log, "delete", path, FALSE)])
    /\ UNCHANGED <<paths, write_path>>

\* Faulty variant: the loop of reset ends at the first file it removes.
ResetRemove_stops(p) ==
    LET s == proc[p]
        path == paths[s.idx]
    IN
    /\ s.pc = "ResetRemove"
    /\ \E ok \in BOOLEAN :
          IF ok /\ CanRemove(fs, path)
          THEN /\ fs' = Removed(fs, path)
               /\ Set(p, [s EXCEPT !.pc = "ResetWrite", !.log = Called(s.log, "delete", path, TRUE)])
          ELSE /\ fs' = fs
               /\ Set(p, [s EXCEPT !.pc = "Done", !.log = Called(s.log, "delete", path, FALSE),
                                   !.result = CmdErr("DeleteConfig")])
    /\ UNCHANGED <<paths, write_path>>

\* fs::remove_file(path) in the loop of reset
ResetRemove(p) ==
    LET s == proc[p]
        path == paths[s.idx]
    IN
    /\ s.pc = "ResetRemove"
    /\ \E ok \in BOOLEAN :
          IF ok /\ CanRemove(fs, path)
          THEN /\ fs' = Removed(fs, path)
               /\ Set(p, [Advance(s, "ResetCheck", "ResetWrite") EXCEPT !.log = Called(s.log, "delete", path, TRUE)])
          ELSE /\ fs' = fs
               /\ Set(p, [s EXCEPT !.pc = "Done", !.log = Called(s.log, "delete", path, FALSE),
                                   !.result = CmdErr("DeleteConfig")])
    /\ UNCHANGED <<paths, write_path>>

\* C::default().write() in reset
ResetWrite(p) ==
    LET s == proc[p]
    IN
    /\ s.pc = "ResetWrite"
    /\ \E ok \in BOOLEAN :
          IF ok /\ CanWrite(fs, write_path)
          THEN /\ fs' = Written(fs, write_path, DefaultConfig)
               /\ Set(p, [s EXCEPT !.pc = "Done", !.log = Called(s.log, "write", write_path, TRUE),
                                   !.result = CmdOk(DefaultConfig, FALSE)])
          ELSE /\ fs' = fs
               /\ Set(p, [s EXCEPT !.pc = "Done", !.log = Called(s.log, "write", write_path, FALSE),
                                   !.result = CmdErr("WriteConfig")])
    /\ UNCHANGED <<paths, write_path>>

CommandStep(p) ==
    \/ Update(p)
    \/ Delete(p)
    \/ Write(p)
    \/ InitCheck(p)
    \/ InitWrite(p)
    \/ ResetCheck(p)
    \/ ResetRemove(p)
    \/ ResetWrite(p)

\* ------------------------------------------------------ specifications

\* One call of try_load_config against every file system and candidate list.
Init ==
    /\ paths \in CandidateLists
    /\ write_path = IF paths = <<>> THEN "a.json" ELSE paths[Len(paths)]
    /\ fs \in [PathNames -> FileStates]
    /\ proc = [p \in Procs |-> IF p = "main" THEN Entered("load", fs) ELSE Idle]
    /\ args = NoCall /\ built = NoCall

Next == LoadStep("main")

Spec == Init /\ [][Next]_vars

\* The files the subcommands are run against: nothing, the three kinds of
\* unusable entry, a v1 config, an up-to-date config and an invalid one.
CommandFiles ==
    {NoFile, StatErr, Unreadable, Garbage,
     JsonFile(DocOf(Str("v1"), Num(0), Absent)),
     JsonFile(DocOf(Str("v2"), Num(0), Str("x"))),
     JsonFile(DocOf(Str("v2"), Num(-1), Absent))}

\* One call of update, init or reset, ConfigFile::write writing to any one
\* of the candidates.
InitCmd ==
    /\ paths \in CandidateLists
    /\ write_path \in (IF paths = <<>> THEN PathNames ELSE Range(paths))
    /\ fs \in [PathNames -> CommandFiles]
    /\ \E op \in {"update", "init", "reset"} :
          proc = [p \in Procs |-> IF p = "main" THEN Entered(op, fs) ELSE Idle]
    /\ args = NoCall /\ built = NoCall

NextCmd == LoadStep("main") \/ CommandStep("main")

SpecCmd == InitCmd /\ [][NextCmd]_vars

\* try_load_config called again and again by a second process while the
\* first makes one call of it, over a file system nobody else touches.
InitLoads ==
    /\ paths \in CandidateLists
    /\ write_path = IF paths = <<>> THEN "a.json" ELSE paths[Len(paths)]
    /\ fs \in [PathNames -> CommandFiles]
    /\ proc = [p \in Procs |-> IF p = "main" THEN Entered("load", fs) ELSE Idle]
    /\ args = NoCall /\ built = NoCall

NextLoads == LoadStep("main") \/ Call("reader") \/ LoadStep("reader")

SpecLoads == InitLoads /\ [][NextLoads]_vars

\* One call of update while a second process calls try_load_config; the
\* processes share nothing but the file system and interleave at its calls.
InitConc ==
    /\ paths \in CandidateLists
    /\ write_path \in (IF paths = <<>> THEN PathNames ELSE Range(paths))
    /\ fs \in [PathNames -> CommandFiles]
    /\ proc = [p \in Procs |-> IF p = "main" THEN Entered("update", fs) ELSE Idle]
    /\ args = NoCall /\ built = NoCall

NextConc ==
    \/ LoadStep("main")
    \/ Update("main")
    \/ Delete("main")
    \/ Write("main")
    \/ Call("reader")
    \/ LoadStep("reader")

SpecConc == InitConc /\ [][NextConc]_vars

\* ---------------------------------------- calls of ValidationProblem::new

\* The property names of the instance paths: a plain one, one that holds the
\* separator ": " and one that holds a line ending.
PropertyNames ==
    { <<"i", "t", "e", "m", "s">>, <<"a", ":", " ", "b">>, <<"a", "\r", "\n", "b">> }

Ordinals == {0, 12}

Segments == { Property(name) : name \in PropertyNames } \cup { Index(i) : i \in Ordinals }

InstancePaths == UNION { [1..n -> Segments] : n \in 0..MaxSegments }

\* The offending values: scalars, strings with a separator, with a line break
\* and with a two-byte character in them, empty and non-empty containers.
Instances ==
    { JNum(-12), JNull, JStr(<<"x">>), JStr(<<"a", ":", " ", "b">>), JStr(<<"a", "\n", "b">>),
      JStr(<<"é">>),
      JArr(<<>>), JArr(<<JNum(1), JNull>>),
      JObj(<<[key |-> <<"k">>, value |-> JStr(<<"x">>)]>>) }

\* The positioned tree of the text
\*   {
\*     "items": [
\*       [
\*         7
\*       ]
\*     ],
\*     "a: b": 1
\*   }
Document ==
    Object(1, 1,
        <<[key |-> <<"i", "t", "e", "m", "s">>,
           value |-> Array(2, 12, <<Array(3, 5, <<Scalar(4, 7)>>)>>)],
          [key |-> <<"a", ":", " ", "b">>, value |-> Scalar(7, 11)]>>)

\* A raw failure of the engine as ValidationProblem::new destructures it.
ValidationError_of(instance, instance_path) ==
    [instance |-> instance,
     kind |-> [name |-> "Type", property |-> "", limit |-> 0],
     instance_path |-> instance_path,
     schema_path |-> <<>>]

\* The positioned tree of a text of eleven empty lines and the line `  7`.
Padded == Scalar(12, 3)

\* The pointers of the schemas: the root, the schema of `count`, its keyword.
SchemaPaths == { <<>>, <<"properties", "count">>, <<"properties", "count", "minimum">> }

\* What stands at a `description`: nothing, a number, or a string of one
\* line, of none, of two lines (plain or with blanks around the second), or
\* with a line ending at its end.
Descriptions ==
    { NoValue, [some |-> TRUE, value |-> JNum(1)] }
    \cup { [some |-> TRUE, value |-> JStr(text)] :
             text \in { <<"M", "u">>, <<>>, <<"M", "\n", "b">>, <<"M", "\n", " ", "b", " ">>,
                        <<"u", "\n">> } }

\* The calls that differ in schema, schema path and kind: a failure of
\* `minimum` at the root or at the inner element of "items".
SchemaCalls ==
    { [fn |-> "new",
       problem |-> [instance |-> JNum(-12),
                    kind |-> [name |-> kind, property |-> "", limit |-> 0],
                    instance_path |-> instance_path,
                    schema_path |-> schema_path],
       schema |-> [at |-> at, description |-> description],
       document |-> document,
       file_path |-> file_path] :
        kind \in {"Minimum", "FalseSchema"},
        instance_path \in { <<>>, <<Property(<<"i", "t", "e", "m", "s">>), Index(0), Index(0)>> },
        schema_path \in SchemaPaths,
        at \in { <<>>, <<"properties", "count">> },
        description \in Descriptions,
        document \in {NoDocument, SomeDocument(Padded)},
        file_path \in {NoFilePath, SomeFilePath("a.json")} }

\* ValidationProblem::new(problem, schema, document, file_path, output_format)
New ==
    /\ args.fn = "new"
    /\ built.fn = "none"
    /\ built' = [fn |-> "new",
                 problem |-> ValidationProblem_new(args.problem, args.schema, args.document,
                                                   args.file_path)]
    /\ UNCHANGED <<paths, write_path, fs, proc, args>>

\* write_headline: the node the headline names.
WriteHeadline ==
    /\ built.fn = "new"
    /\ built' = [fn |-> "headline", problem |-> built.problem,
                 node |-> pointing_at(built.problem.instance_path)]
    /\ UNCHANGED <<paths, write_path, fs, proc, args>>

\* ProblemMessage::headline and ProblemMessage::message of the kinds of the
\* model: a phrase for the headline, and a message for the bound kinds only.
headline(kind) == <<"i", "s", " ", "i", "n", "v", "a", "l", "i", "d">>
message(kind) ==
    IF kind.name = "Minimum"
    THEN [some |-> TRUE,
          text |-> <<"m", "u", "s", "t", " ", "b", "e", " ", "a", "t", " ", "l", "e", "a", "s", "t", " ">>
                   \o Decimal(kind.limit)]
    ELSE [some |-> FALSE, text |-> <<>>]

\* str::repeat
repeat(c, n) == [i \in 1..n |-> c]

\* ValidationProblem::indent: the digits of the line number, 1 without one.
problem_indent(problem) ==
    IF problem.location.some /\ problem.location.position.some
    THEN len(Decimal(problem.location.position.line))
    ELSE 1

\* A line of the output and the function that wrote it.
Line(by, text) == [by |-> by, text |-> text]

\* Faulty variant: the spacer before the notes is written without looking at
\* the notes.
fmt_always_spacer(problem, node) ==
    LET gutter == repeat(" ", problem_indent(problem))
        spacer == Line("write_spacer", gutter \o <<" ", "|", " ">>)
    IN  <<Line("write_headline", <<"e", "r", "r", "o", "r", ":", " ", "backtick">> \o node
                                  \o <<"backtick", " ">> \o headline(problem.kind))>>
        \o (IF problem.location.some
            THEN <<Line("write_file", gutter \o <<"-", "-", ">", " ">>
                                      \o <<problem.location.path>>)>>
            ELSE <<>>)
        \o <<spacer>>
        \o <<Line("write_source", <<" ", "|", " ">> \o problem.source)>>
        \o <<Line("write_message", gutter \o <<" ", "|", " ">>)>>
        \o <<spacer>>
        \o [i \in 1..Len(problem.notes) |->
              Line("note", gutter \o <<" ", "=", " ">> \o <<"n", "o", "t", "e", ":", " ">>
                           \o problem.notes[i])]

\* Display::fmt of ValidationProblem in the Basic format, line by line:
\* write_headline, write_file, write_spacer, write_source, write_message,
\* then a spacer and the notes when there are notes. `node` is what
\* write_headline got from pointing_at; a file path is one token of the text
\* and "backtick" stands for the character that quotes the node.
fmt(problem, node) ==
    LET gutter == repeat(" ", problem_indent(problem))
        spacer == Line("write_spacer", gutter \o <<" ", "|", " ">>)
        position == problem.location.position
    IN  <<Line("write_headline", <<"e", "r", "r", "o", "r", ":", " ", "backtick">> \o node
                                  \o <<"backtick", " ">> \o headline(problem.kind))>>
        \o (IF problem.location.some
            THEN <<Line("write_file",
                        gutter \o <<"-", "-", ">", " ">> \o <<problem.location.path>>
                        \o (IF position.some
                            THEN <<":">> \o Decimal(position.line)
                                 \o <<":">> \o Decimal(position.column)
                            ELSE <<>>))>>
            ELSE <<>>)
        \o <<spacer>>
        \o <<Line("write_source",
                  (IF problem.location.some /\ position.some
                   THEN Decimal(position.line) ELSE <<>>)
                  \o <<" ", "|", " ">> \o problem.source)>>
        \o <<Line("write_message",
                  gutter \o <<" ", "|", " ">>
                  \o repeat(" ", problem.range.start)
                  \o repeat("^", problem.range.end - problem.range.start)
                  \o (IF message(problem.kind).some
                      THEN <<" ">> \o message(problem.kind).text ELSE <<>>))>>
        \o (IF problem.notes # <<>> THEN <<spacer>> ELSE <<>>)
        \o [i \in 1..Len(problem.notes) |->
              Line("note", gutter \o <<" ", "=", " ">> \o <<"n", "o", "t", "e", ":", " ">>
                           \o problem.notes[i])]

\* The rest of Display::fmt after write_headline: the problem is written out.
Fmt ==
    /\ built.fn = "headline"
    /\ built' = [fn |-> "fmt", problem |-> built.problem, node |-> built.node,
                 out |-> fmt(built.problem, built.node)]
    /\ UNCHANGED <<paths, write_path, fs, proc, args>>

\* One problem is built from any raw failure, with or without a positioned
\* tree and a file path, or from a failure of `minimum` under any schema of
\* the model, and it is displayed.
InitProblem ==
    /\ paths = <<>>
    /\ write_path = "a.json"
    /\ fs = [q \in PathNames |-> NoFile]
    /\ proc = [p \in Procs |-> Idle]
    /\ \/ \E instance \in Instances, instance_path \in InstancePaths,
             document \in {NoDocument, SomeDocument(Document)},
             file_path \in {NoFilePath, SomeFilePath("a.json")} :
             args = [fn |-> "new", problem |-> ValidationError_of(instance, instance_path),
                     schema |-> [at |-> <<>>, description |-> NoValue],
                     document |-> document, file_path |-> file_path]
       \/ args \in SchemaCalls
    /\ built = NoCall

NextProblem == New \/ WriteHeadline \/ Fmt

SpecProblem == InitProblem /\ [][NextProblem]_vars

\* ------------------------------------------------- reading the state

Main == proc["main"]

\* The events of a log that are `ev`.
EventsOf(log, ev) == SelectSeq(log, LAMBDA e : e.ev = ev)

\* The index of the first candidate that is not absent in `files`, 0 for none.
FirstPresent(files) ==
    IF \E i \in 1..Len(paths) : files[paths[i]].st # "absent"
    THEN CHOOSE i \in 1..Len(paths) :
            /\ files[paths[i]].st # "absent"
            /\ \A j \in 1..(i - 1) : files[paths[j]].st = "absent"
    ELSE 0

\* What the first present candidate holds (NoFile when there is none).
FirstFile(files) == IF FirstPresent(files) = 0 THEN NoFile ELSE files[paths[FirstPresent(files)]]

FirstPath(files) == IF FirstPresent(files) = 0 THEN NoPath ELSE paths[FirstPresent(files)]

\* The load of the main process is over.
LoadOver == Main.load_result.tag # "None"

\* The versions the registry knows, listed independently of schema().
Registered(version) == version \in SchemaVersions

\* A document the pipeline accepts: a registered string version and no failure.
Acceptable(file) ==
    /\ file.st = "json"
    /\ file.doc["_version"].t = "str"
    /\ Registered(file.doc["_version"].s)
    /\ iter_errors(schema(file.doc["_version"].s), file.doc) = <<>>

\* ------------------------------------------------------------- claims

\* C1: try_load_config returns a typed configuration only if a candidate file
\* existed, was read, parsed, carried a registered string `_version` and passed
\* validation with zero failures; in every other case it returns an error and
\* no configuration.
C1_AcceptedOnlyIfValidElseError ==
    LoadOver =>
        /\ Main.load_result.tag = "Ok" =>
              /\ Acceptable(FirstFile(Main.fs0))
              /\ EventsOf(Main.log, "read") = <<Event("read", FirstPath(Main.fs0))>>
        /\ ~Acceptable(FirstFile(Main.fs0)) =>
              /\ Main.load_result.tag = "Err"
              /\ Main.load_result.config = NoConfig

\* C2: a load runs Discover, Read, Parse, Resolve schema, Validate, Deserialize
\* in that order; the error returned is that of the earliest failing stage and
\* no stage runs after a stage has failed.
StageOf(ev) ==
    CASE ev = "exists" -> 1
      [] ev = "read" -> 2
      [] ev = "parse" -> 3
      [] ev = "version" -> 4
      [] ev = "schema" -> 4
      [] ev = "validate" -> 5
      [] ev = "deserialize" -> 6

\* The earliest stage that fails on `files` (7 when none does) and its error.
EarliestFailure(files) ==
    LET file == FirstFile(files)
        path == FirstPath(files)
        version == file.doc["_version"]
    IN  CASE file.st = "absent" ->
               [stage |-> 1, error |-> IF paths = <<>> THEN NoLoadResult
                                       ELSE FileNotFound(paths[Len(paths)])]
          [] file.st = "staterr" -> [stage |-> 1, error |-> ReadError(path)]
          [] file.st = "unreadable" -> [stage |-> 2, error |-> ReadError(path)]
          [] file.st = "garbage" -> [stage |-> 3, error |-> InvalidJson(path)]
          [] file.st = "json" /\ version.t = "absent" ->
               [stage |-> 4, error |-> VersionError(path, VersionErr("MissingProperty", ""))]
          [] file.st = "json" /\ version.t = "num" ->
               [stage |-> 4, error |-> VersionError(path, VersionErr("NotAString", ""))]
          [] file.st = "json" /\ version.t = "str" /\ ~Registered(version.s) ->
               [stage |-> 4, error |-> VersionError(path, VersionErr("InvalidVersion", version.s))]
          [] OTHER ->
               IF iter_errors(schema(version.s), file.doc) # <<>>
               THEN [stage |-> 5, error |-> NoLoadResult]
               ELSE [stage |-> 7, error |-> NoLoadResult]

C2_StagesInOrderFailFast ==
    LET log == Main.log
        first == EarliestFailure(Main.fs0)
    IN  /\ \A i, j \in 1..Len(log) : i < j => StageOf(log[i].ev) <= StageOf(log[j].ev)
        /\ \A i \in 1..Len(log) : StageOf(log[i].ev) <= first.stage
        /\ LoadOver =>
              /\ \A st \in 2..6 : st <= first.stage => \E i \in 1..Len(log) : StageOf(log[i].ev) = st
              /\ Main.load_result.tag = "Ok" <=> first.stage = 7
              /\ Main.load_result.tag = "Err" /\ first.stage < 5 => Main.load_result = first.error
              /\ Main.load_result.tag = "Err" /\ first.stage = 5 =>
                    Main.load_result.kind = "ValidationError"

C2_Witness ==
    /\ LoadOver
    /\ Main.load_result.kind = "ValidationError"
    /\ Len(Main.log) >= 5

\* C3: the file loaded is the first candidate, in config_file_paths() order,
\* that exists; no later candidate is read even when it also exists.
C3_FirstExistingWins ==
    LET first == FirstPresent(Main.fs0)
        reads == EventsOf(Main.log, "read")
    IN  /\ Len(reads) <= 1
        /\ \A i \in 1..Len(reads) : first # 0 /\ reads[i].arg = paths[first]
        /\ Main.config_path # NoPath => first # 0 /\ Main.config_path = paths[first]
        /\ Len(EventsOf(Main.log, "exists")) <= first \/ first = 0
        /\ LoadOver /\ first # 0 /\ Main.fs0[paths[first]].st # "staterr" =>
              reads = <<Event("read", paths[first])>>

C3_Witness ==
    /\ LoadOver
    /\ Len(paths) = 2 /\ paths[1] # paths[2]
    /\ Main.fs0[paths[1]].st = "json" /\ Main.fs0[paths[2]].st = "json"
    /\ EventsOf(Main.log, "read") = <<Event("read", paths[1])>>

\* C4: when no candidate path exists, the load fails with FileNotFound whose
\* path is the last candidate of the list.
C4_NotFoundReportsLast ==
    LoadOver /\ paths # <<>> /\ (\A i \in 1..Len(paths) : Main.fs0[paths[i]].st = "absent") =>
        Main.load_result = FileNotFound(paths[Len(paths)])

C4_Witness ==
    /\ LoadOver
    /\ paths = <<"a.json", "b.json">>
    /\ Main.load_result = FileNotFound("b.json")

\* C5: try_get_schema distinguishes three failures: no `_version` gives
\* MissingProperty, a `_version` that is not a string gives NotAString, a string
\* with no registered schema gives InvalidVersion carrying it; no document maps
\* to more than one of them.
C5_ThreeVersionFailures ==
    LET version == Main.raw_config["_version"]
        r == Main.load_result
        resolved == EventsOf(Main.log, "version") # <<>>
    IN  LoadOver /\ resolved =>
          /\ r.kind = "VersionError" /\ r.version_kind = "MissingProperty" <=> version.t = "absent"
          /\ r.kind = "VersionError" /\ r.version_kind = "NotAString" <=>
                version.t # "absent" /\ version.t # "str"
          /\ r.kind = "VersionError" /\ r.version_kind = "InvalidVersion" <=>
                version.t = "str" /\ ~Registered(version.s)
          /\ r.version_kind = "InvalidVersion" => r.version = version.s
          /\ r.kind = "VersionError" =>
                r.version_kind \in {"MissingProperty", "NotAString", "InvalidVersion"}

C5_Witness ==
    /\ LoadOver
    /\ Main.load_result.kind = "VersionError"
    /\ Main.load_result.version_kind = "InvalidVersion"
    /\ Main.load_result.version = "v9"

\* C6: for a document whose version field is absent the load fails with the
\* missing-version kind and ConfigFile::schema is never consulted.
C6_MissingVersionNeverConsultsRegistry ==
    LET file == FirstFile(Main.fs0) IN
    file.st = "json" /\ file.doc["_version"].t = "absent" =>
        /\ EventsOf(Main.log, "schema") = <<>>
        /\ LoadOver =>
              Main.load_result =
                  VersionError(FirstPath(Main.fs0), VersionErr("MissingProperty", ""))

C6_Witness ==
    /\ LoadOver
    /\ Main.raw_config["_version"].t = "absent"
    /\ Main.raw_config["count"].t = "num"
    /\ Main.load_result.version_kind = "MissingProperty"

\* C7: when the engine yields n >= 1 failures the load fails with
\* ValidationError holding exactly n problems, one per raw failure in the
\* engine's order, with error_count = n and the loaded file's path.
C7_AllFailuresReported ==
    LET raw == iter_errors(Main.schema, Main.raw_config)
        r == Main.load_result
        validated == EventsOf(Main.log, "validate") # <<>>
    IN  LoadOver /\ validated /\ Len(raw) >= 1 =>
          /\ r.tag = "Err" /\ r.kind = "ValidationError"
          /\ Len(r.source.problems) = Len(raw)
          /\ \A i \in 1..Len(raw) :
                /\ r.source.problems[i].kind = raw[i].kind
                /\ r.source.problems[i].instance_path = raw[i].instance_path
          /\ r.error_count = Len(raw)
          /\ r.path = FirstPath(Main.fs0)
          /\ r.source.file_path = FirstPath(Main.fs0)

C7_Witness ==
    /\ LoadOver
    /\ Main.load_result.kind = "ValidationError"
    /\ Main.load_result.error_count = 2
    /\ Main.load_result.source.problems[1].kind.name = "Minimum"
    /\ Main.load_result.source.problems[2].kind.name = "Required"

\* C8: if the first existing candidate cannot be read the load fails with
\* ReadError for that path; the read is attempted exactly once and the load
\* does not fall back to a later candidate.
C8_ReadFailureIsFatal ==
    LET first == FirstPresent(Main.fs0) IN
    first # 0 /\ Main.fs0[paths[first]].st = "unreadable" =>
        /\ Len(EventsOf(Main.log, "read")) <= 1
        /\ LoadOver =>
              /\ Main.load_result = ReadError(paths[first])
              /\ EventsOf(Main.log, "read") = <<Event("read", paths[first])>>
              /\ Main.log[Len(Main.log)] = Event("read", paths[first])
              /\ Len(EventsOf(Main.log, "exists")) = first

C8_Witness ==
    /\ LoadOver
    /\ paths = <<"a.json", "b.json">>
    /\ Main.fs0["a.json"].st = "unreadable"
    /\ Acceptable(Main.fs0["b.json"])
    /\ Main.load_result = ReadError("a.json")

\* The typed value's update() reports changed = true.
Changed == Main.load_result.tag = "Ok" /\ update(Main.load_result.config)[2]

\* The call at position i of the log failed.
Failed(log, i) == i < Len(log) /\ log[i + 1].ev = "io_error"

\* C9: update deletes the old file and then writes the new one, in that order,
\* exactly when update() reports changed = true; when it reports changed =
\* false neither delete nor write is called and the file system is unchanged.
C9_MigratesExactlyWhenChanged ==
    LET log == Main.log
        deletes == EventsOf(log, "delete")
        writes == EventsOf(log, "write")
    IN  Main.op = "update" =>
          /\ deletes # <<>> \/ writes # <<>> => Changed
          /\ Len(deletes) <= 1 /\ Len(writes) <= 1
          /\ \A i, j \in 1..Len(log) :
                log[i].ev = "delete" /\ log[j].ev = "write" => i < j /\ ~Failed(log, i)
          /\ writes # <<>> => deletes # <<>>
          /\ Main.pc = "Done" /\ Changed => Len(deletes) = 1
          /\ Main.pc = "Done" /\ Changed /\ Main.result.tag = "Ok" =>
                /\ Len(writes) = 1
                /\ Main.result = CmdOk(update(Main.load_result.config)[1], TRUE)
                /\ fs = Written(Removed(Main.fs0, FirstPath(Main.fs0)), write_path,
                                update(Main.load_result.config)[1])
          /\ Main.pc = "Done" /\ Main.load_result.tag = "Ok" /\ ~Changed =>
                /\ deletes = <<>> /\ writes = <<>>
                /\ fs = Main.fs0
                /\ Main.result = CmdOk(Main.load_result.config, FALSE)

C9_Witness ==
    /\ Main.op = "update" /\ Main.pc = "Done"
    /\ Changed
    /\ Main.result.tag = "Ok"
    /\ Len(Main.log) >= 2
    /\ Main.log[Len(Main.log) - 1].ev = "delete"
    /\ Main.log[Len(Main.log)].ev = "write"
    /\ fs # Main.fs0

\* C10: if delete fails during a migration, update returns DeleteConfig, write
\* is never attempted and the old config file is still in place on disk.
C10_DeleteFailureKeepsOldFile ==
    LET log == Main.log IN
    Main.op = "update" /\ (\E i \in 1..Len(log) : log[i].ev = "delete" /\ Failed(log, i)) =>
        /\ Main.pc = "Done"
        /\ Main.result = CmdErr("DeleteConfig")
        /\ EventsOf(log, "write") = <<>>
        /\ fs = Main.fs0
        /\ fs[Main.config_path].st = "json"
        /\ Deserialize(fs[Main.config_path].doc) = Main.load_result.config

C10_Witness ==
    /\ Main.op = "update" /\ Main.pc = "Done"
    /\ Main.result = CmdErr("DeleteConfig")
    /\ Main.log[Len(Main.log)].ev = "io_error"
    /\ fs[Main.config_path].st = "json"


\* The write of the update failed (its delete had succeeded).
WriteFailedAfterDelete ==
    /\ Main.op = "update"
    /\ \E i \in 1..Len(Main.log) : Main.log[i].ev = "write" /\ Failed(Main.log, i)

\* C11 as stated: if write fails after a successful delete, update returns
\* WriteConfig and no config file is left on disk.
C11_NoConfigFileLeft ==
    WriteFailedAfterDelete =>
        /\ Main.result = CmdErr("WriteConfig")
        /\ \A i \in 1..Len(paths) : fs[paths[i]].st # "json"

\* C11 as amended: if write fails after a successful delete, update returns
\* WriteConfig, the file the config was loaded from is gone and is not
\* restored, the new config is not written, and every other path is as it
\* was: a later candidate that held a file still holds it.
C11_OldFileNotRestored ==
    WriteFailedAfterDelete =>
        /\ Main.pc = "Done"
        /\ Main.result = CmdErr("WriteConfig")
        /\ Main.fs0[Main.config_path].st = "json"
        /\ fs[Main.config_path].st = "absent"
        /\ \A q \in PathNames : q # Main.config_path => fs[q] = Main.fs0[q]
        /\ (\A i \in 1..Len(paths) :
               paths[i] # Main.config_path => Main.fs0[paths[i]].st # "json")
              => \A i \in 1..Len(paths) : fs[paths[i]].st # "json"

C11_Witness ==
    /\ WriteFailedAfterDelete
    /\ Main.pc = "Done"
    /\ Len(paths) = 2 /\ paths[1] # paths[2]
    /\ fs[paths[1]].st = "absent"
    /\ fs[paths[2]].st = "json"


Reader == proc["reader"]

ReaderOver == Reader.op = "load" /\ Reader.load_result.tag # "None"

\* The update stands between its delete and its write.
InWindow == Main.op = "update" /\ Main.pc = "Write"

\* C12: while an update with changed = true runs, it passes through a state
\* between delete and write in which the file it loaded is gone although it
\* held a config before; a load by another process that runs in that state
\* and finds no other candidate fails with NotFound.
C12_LoadInWindowFindsNothing ==
    InWindow =>
        /\ Main.updated
        /\ Main.fs0[Main.config_path].st = "json"
        /\ fs = Removed(Main.fs0, Main.config_path)
        /\ (/\ ReaderOver
            /\ Reader.fs0 = fs
            /\ \A i \in 1..Len(paths) : fs[paths[i]].st = "absent")
              => Reader.load_result = FileNotFound(paths[Len(paths)])

\* The update is over and succeeded, a config exists again, and the load that
\* was entered between its delete and its write has failed with NotFound.
C12_Witness ==
    /\ Main.op = "update" /\ Main.pc = "Done" /\ Main.result = CmdOk(Main.new_config, TRUE)
    /\ Acceptable(Main.fs0[Main.config_path])
    /\ Acceptable(fs[write_path])
    /\ ReaderOver
    /\ Reader.fs0 = Removed(Main.fs0, Main.config_path)
    /\ Reader.load_result = FileNotFound(paths[Len(paths)])


\* C13: try_load_config never writes or deletes a file and keeps nothing
\* between calls: the file system stays what every call was entered with, and
\* any two calls that are over returned the same outcome, however many other
\* calls ran before or between them.
C13_LoadsAreReadOnlyAndStateless ==
    /\ fs = Main.fs0
    /\ Reader.op = "load" => fs = Reader.fs0
    /\ (LoadOver /\ ReaderOver) => Reader.load_result = Main.load_result

\* The call of one process and a call of the other are over and both
\* returned the same accepted configuration.
C13_Witness ==
    /\ LoadOver /\ ReaderOver
    /\ Main.load_result.tag = "Ok"
    /\ Reader.load_result = Main.load_result
    /\ Len(Reader.log) > 0


\* The candidates that are there in `files` (an entry whose existence cannot
\* be determined is not counted).
Existing(files) == { i \in 1..Len(paths) : files[paths[i]].st \notin {"absent", "staterr"} }

InitOver == Main.op = "init" /\ Main.pc = "Done"

\* C14 as stated: init fails with AlreadyInitialised and writes nothing
\* whenever any candidate path exists; only when no candidate exists does it
\* write the default config, exactly once, and return it.
C14_AlreadyInitialisedWheneverAnyExists ==
    InitOver =>
        /\ Existing(Main.fs0) # {} =>
              /\ Main.result = CmdErr("AlreadyInitialised")
              /\ EventsOf(Main.log, "write") = <<>>
              /\ fs = Main.fs0
        /\ EventsOf(Main.log, "write") # <<>> =>
              /\ Existing(Main.fs0) = {}
              /\ Len(EventsOf(Main.log, "write")) = 1
        /\ Main.result.tag = "Ok" => Main.result.config = DefaultConfig

\* C14 as amended: whenever a candidate exists or cannot be checked, init
\* writes nothing and fails, with AlreadyInitialised when the first candidate
\* that is not absent exists and with CheckPathExists when its existence
\* check fails; only when every candidate is absent does it write the default
\* config, exactly once, returning it when the write succeeds and WriteConfig
\* when it fails.
C14_InitWritesOnlyWhenNoneExists ==
    InitOver =>
        LET first == FirstPresent(Main.fs0)
            writes == EventsOf(Main.log, "write")
        IN
        /\ first # 0 =>
              /\ writes = <<>>
              /\ fs = Main.fs0
              /\ Main.result = CmdErr(IF Main.fs0[paths[first]].st = "staterr"
                                      THEN "CheckPathExists" ELSE "AlreadyInitialised")
        /\ first = 0 =>
              /\ writes = <<Event("write", write_path)>>
              /\ \/ /\ Main.result = CmdOk(DefaultConfig, FALSE)
                    /\ fs = Written(Main.fs0, write_path, DefaultConfig)
                 \/ /\ Main.result = CmdErr("WriteConfig")
                    /\ fs = Main.fs0

\* Init has met a candidate it could not check before one that exists.
C14_Witness ==
    /\ InitOver
    /\ Len(paths) = 2
    /\ Main.fs0[paths[1]].st = "staterr"
    /\ 2 \in Existing(Main.fs0)
    /\ Main.result = CmdErr("CheckPathExists")


\* The place of a path in the candidate list (its first occurrence).
FirstIndex(path) == CHOOSE i \in 1..Len(paths) : paths[i] = path /\ \A j \in 1..(i - 1) : paths[j] # path

ResetSucceeded == Main.op = "reset" /\ Main.pc = "Done" /\ Main.result.tag = "Ok"

\* C15: a successful reset checks the candidates in order, removes every
\* candidate that existed, each once and in candidate order, and only after
\* the last removal writes the default config, once; it returns the default
\* config.
C15_ResetRemovesAllThenWrites ==
    ResetSucceeded =>
        LET deletes == EventsOf(Main.log, "delete")
            n == Len(Main.log)
        IN
        /\ EventsOf(Main.log, "exists") = [i \in 1..Len(paths) |-> Event("exists", paths[i])]
        /\ { deletes[k].arg : k \in 1..Len(deletes) } = { paths[i] : i \in Existing(Main.fs0) }
        /\ \A j, k \in 1..Len(deletes) :
              j < k => FirstIndex(deletes[j].arg) < FirstIndex(deletes[k].arg)
        /\ EventsOf(Main.log, "io_error") = <<>>
        /\ n > 0 /\ Main.log[n] = Event("write", write_path)
        /\ \A i \in 1..(n - 1) : Main.log[i].ev # "write"
        /\ Main.result = CmdOk(DefaultConfig, FALSE)
        /\ fs = Written([q \in PathNames |-> IF q \in Range(paths) THEN NoFile ELSE Main.fs0[q]],
                        write_path, DefaultConfig)

\* A reset that removed two candidates has succeeded.
C15_Witness ==
    /\ ResetSucceeded
    /\ Len(EventsOf(Main.log, "delete")) = 2
    /\ fs[write_path] = JsonFile(Serialize(DefaultConfig))


\* ValidationProblem::new has returned.
Built == built.fn # "none"

\* Where each value of the text starts, read off the text: the paths that
\* lead to a value, each with the line and column of that value.
Starts ==
    { <<<<>>, 1, 1>>,
      <<<<Property(<<"i", "t", "e", "m", "s">>)>>, 2, 12>>,
      <<<<Property(<<"i", "t", "e", "m", "s">>), Index(0)>>, 3, 5>>,
      <<<<Property(<<"i", "t", "e", "m", "s">>), Index(0), Index(0)>>, 4, 7>>,
      <<<<Property(<<"a", ":", " ", "b">>)>>, 7, 11>> }

\* The same for the tree of the call: the padded text holds its root only.
StartsOfCall == IF args.document.root = Padded THEN { <<<<>>, 12, 3>> } ELSE Starts

Resolves(path) == \E start \in StartsOfCall : start[1] = path

\* C16: ValidationProblem::new sets a location exactly when both the
\* positioned tree and the file path are supplied; the location holds the
\* file path, and the line and column of the resolved node exactly when the
\* instance path resolves in the tree; with either input absent there is no
\* location.
C16_LocationNeedsTreeAndPath ==
    Built =>
        LET location == built.problem.location IN
        /\ location.some <=> (args.document.some /\ args.file_path.some)
        /\ location.some =>
              /\ location.path = args.file_path.path
              /\ location.position.some <=> Resolves(args.problem.instance_path)
              /\ location.position.some =>
                    <<args.problem.instance_path, location.position.line,
                      location.position.column>> \in StartsOfCall

\* A problem on the inner element of "items" got the file path with line 4,
\* column 7.
C16_Witness ==
    /\ Built
    /\ args.problem.instance_path = <<Property(<<"i", "t", "e", "m", "s">>), Index(0), Index(0)>>
    /\ built.problem.location = [some |-> TRUE, path |-> "a.json",
                                 position |-> [some |-> TRUE, line |-> 4, column |-> 7]]


\* The last segment of the instance path of the call is a Property.
EndsInProperty ==
    /\ args.problem.instance_path # <<>>
    /\ args.problem.instance_path[Len(args.problem.instance_path)].t = "property"

\* The name of that Property.
LastName == args.problem.instance_path[Len(args.problem.instance_path)].name

\* C18: the underline covers the value and not the key: for a path that ends
\* in a Property it runs from the first character of the rendered value, just
\* past the key's `": "`, to the end of the line; for an Index or the root it
\* is the whole line; whatever the key and the value hold.
C18_UnderlineCoversValueNotKey ==
    Built =>
        /\ built.problem.range.end = len(built.problem.source)
        /\ built.problem.range.start =
              IF EndsInProperty THEN len(<<"\"">> \o LastName \o <<"\"", ":", " ">>) ELSE 0

\* The text a call must reconstruct: `"key": ` before the pretty-printed
\* value when the path ends in a Property, the value alone otherwise.
Rendering ==
    (IF EndsInProperty THEN <<"\"">> \o LastName \o <<"\"", ":", " ">> ELSE <<>>)
    \o to_string_pretty(args.problem.instance)

\* `line` is what stands before the first line break of `text`.
IsFirstLineOf(line, text) ==
    /\ \A i \in 1..Len(line) : line[i] # "\n"
    /\ \/ line = text
       \/ /\ Len(line) < Len(text)
          /\ SubSeq(text, 1, Len(line)) = line
          /\ \/ text[Len(line) + 1] = "\n"
             \/ /\ Len(line) + 1 < Len(text)
                /\ text[Len(line) + 1] = "\r"
                /\ text[Len(line) + 2] = "\n"

\* C19: the source line is the first line, and only the first line, of
\* reconstruct(path, value), which is `"key": <pretty value>` for a path that
\* ends in a Property and the pretty value alone for an Index or the root;
\* the source never holds a line break.
C19_SourceIsFirstLineOfReconstruction ==
    Built =>
        /\ IsFirstLineOf(built.problem.source, Rendering)
        /\ reconstruct(args.problem.instance_path, args.problem.instance) = Rendering

\* A non-empty array under "items" is cut to its opening line.
C19_Witness ==
    /\ Built
    /\ EndsInProperty
    /\ args.problem.instance = JArr(<<JNum(1), JNull>>)
    /\ built.problem.source = <<"\"", "i", "t", "e", "m", "s", "\"", ":", " ", "[">>

\* The place of the last Property of a path, 0 when it has none.
OwnerAt(path) ==
    IF \E i \in 1..Len(path) : path[i].t = "property"
    THEN CHOOSE i \in 1..Len(path) :
            /\ path[i].t = "property"
            /\ \A j \in (i + 1)..Len(path) : path[j].t = "index"
    ELSE 0

\* The label of a path: its owning property's name (the root sentinel when
\* there is none), then `[i]` for every index after it, in path order.
Label(path) ==
    (IF OwnerAt(path) = 0 THEN <<"[", "r", "o", "o", "t", "]">> ELSE path[OwnerAt(path)].name)
    \o Concat([k \in 1..(Len(path) - OwnerAt(path)) |->
                 <<"[">> \o Decimal(path[OwnerAt(path) + k].index) \o <<"]">>])

\* C20: pointing_at renders `[root]` for the empty path, the property name
\* for a path that ends in a Property, and otherwise the owning property's
\* name followed by `[i]` for each trailing Index in path order; segments
\* before the owning property never appear, and a path of Index segments
\* only is rendered against the root sentinel.
C20_PointingAtLabelsOwnerAndIndexes ==
    built.fn = "headline" => built.node = Label(args.problem.instance_path)

\* The path items / 12 / 0 is labelled items[12][0].
C20_Witness ==
    /\ built.fn = "headline"
    /\ args.problem.instance_path =
          <<Property(<<"i", "t", "e", "m", "s">>), Index(12), Index(0)>>
    /\ built.node = <<"i", "t", "e", "m", "s", "[", "1", "2", "]", "[", "0", "]">>


\* The load has failed validation.
FailedValidation == LoadOver /\ Main.load_result.kind = "ValidationError"

\* The first line of the offending value of a problem, as pretty-printed.
ValueText(problem) ==
    first_line(to_string_pretty(
        IF problem.instance_path = <<>> THEN ObjectOf(Main.raw_config)
        ELSE ValueOf(Main.raw_config["count"])))

\* C17: when a load fails validation, every problem of the load carries the
\* file path and the line and column of the offending value, and its
\* underline covers the offending value: the end of the source line, from
\* where the value starts.
C17_ProblemsLocateAndUnderlineValue ==
    FailedValidation =>
        \A i \in 1..Len(Main.load_result.source.problems) :
            LET problem == Main.load_result.source.problems[i] IN
            /\ problem.file_path = Main.config_path
            /\ position_of(problem).some
            /\ problem.range = [start |-> Len(problem.source) - Len(ValueText(problem)),
                                end |-> Len(problem.source)]


\* C27: with an empty candidate list try_load_config returns no FileNotFound
\* and no other tagged result: it panics while taking the last candidate,
\* before any file system call.
C27_EmptyCandidateListPanics ==
    (LoadOver /\ paths = <<>>) =>
        /\ Main.load_result = LoadPanic
        /\ Main.load_result.tag \notin {"Ok", "Err"}
        /\ Main.log = <<>>
        /\ fs = Main.fs0

\* A load with no candidates is over.
C27_Witness ==
    /\ LoadOver
    /\ paths = <<>>
    /\ Main.op = "load" /\ Main.pc = "Done"
    /\ Main.load_result.tag = "Panic"

\* A removal of reset failed: the place of the failing candidate in the list.
FailedRemovalAt ==
    IF Main.op = "reset" /\ Main.pc = "Done" /\ Main.result = CmdErr("DeleteConfig")
    THEN Main.idx
    ELSE 0

\* C28: if removing a candidate fails during reset, reset returns DeleteConfig
\* and does not write the default config; the candidates removed earlier in
\* the call stay removed, the failing one and those after it are untouched.
C28_ResetStopsAtFailedRemoval ==
    (Main.op = "reset" /\ \E i \in 1..Len(Main.log) : Main.log[i].ev = "delete" /\ Failed(Main.log, i)) =>
        /\ Main.pc = "Done"
        /\ Main.result = CmdErr("DeleteConfig")
        /\ EventsOf(Main.log, "write") = <<>>
        /\ Main.log[Len(Main.log)] = Event("io_error", paths[FailedRemovalAt])
        /\ \A q \in PathNames :
              fs[q] = IF \E j \in 1..(FailedRemovalAt - 1) : paths[j] = q
                      THEN NoFile ELSE Main.fs0[q]
        /\ \A j \in 1..(FailedRemovalAt - 1) : fs[paths[j]].st = "absent"

\* The first candidate was removed, the removal of the second failed.
C28_Witness ==
    /\ FailedRemovalAt = 2
    /\ Main.fs0[paths[1]].st = "json"
    /\ fs[paths[1]].st = "absent"
    /\ fs[paths[2]] = Main.fs0[paths[2]]
    /\ fs[paths[2]].st = "json"


RECURSIVE Trimmed(_)
\* A text without the blanks at its ends.
Trimmed(s) ==
    IF s = <<>> THEN s
    ELSE IF Head(s) \in {" ", "\r", "\n"} THEN Trimmed(Tail(s))
    ELSE IF s[Len(s)] \in {" ", "\r", "\n"} THEN Trimmed(SubSeq(s, 1, Len(s) - 1))
    ELSE s

\* The description the notes of the call come from: the one of the parent of
\* the failing schema path, when it is a string.
DescriptionOfCall ==
    IF /\ args.problem.schema_path # <<>>
       /\ args.schema.description.some
       /\ args.schema.description.value.t = "str"
       /\ args.schema.at = SubSeq(args.problem.schema_path, 1, Len(args.problem.schema_path) - 1)
    THEN [some |-> TRUE, lines |-> split(args.schema.description.value.s, "\n")]
    ELSE [some |-> FALSE, lines |-> <<>>]

\* C21: the notes come from the string `description` of the parent of the
\* failing schema path: the first is "this should be " followed by its first
\* line with the first letter lowercased, every further line, trimmed, is one
\* further note, in order; with no such description there are no notes.
C21_NotesFromParentDescription ==
    Built =>
        LET lines == DescriptionOfCall.lines
            notes == built.problem.notes
        IN  IF DescriptionOfCall.some
            THEN /\ Len(notes) = Len(lines)
                 /\ notes[1] = <<"t", "h", "i", "s", " ", "s", "h", "o", "u", "l", "d", " ", "b", "e", " ">>
                               \o (IF lines[1] = <<>> THEN <<>>
                                   ELSE <<IF lines[1][1] = "M" THEN "m" ELSE lines[1][1]>>
                                        \o Tail(lines[1]))
                 /\ \A i \in 2..Len(lines) : notes[i] = Trimmed(lines[i])
            ELSE notes = <<>>


\* Display::fmt has returned.
Displayed == built.fn = "fmt"

\* The functions that wrote the lines of the output, in order.
WrittenBy == [i \in 1..Len(built.out) |-> built.out[i].by]

\* C22: a rendered problem emits headline, file line, blank gutter line,
\* source line, underline line and notes in that order; the file line is
\* there exactly when the location is (tree and file path both supplied); one
\* blank gutter line precedes the notes when there is a note, none otherwise;
\* the notes follow in their order.
C22_LinesInFixedOrder ==
    Displayed =>
        LET n == Len(DescriptionOfCall.lines) IN
        /\ WrittenBy = <<"write_headline">>
                       \o (IF args.document.some /\ args.file_path.some
                           THEN <<"write_file">> ELSE <<>>)
                       \o <<"write_spacer", "write_source", "write_message">>
                       \o (IF n > 0 THEN <<"write_spacer">> ELSE <<>>)
                       \o [i \in 1..n |-> "note"]
        /\ \A i \in 1..n :
              LET text == built.out[Len(built.out) - n + i].text
                  note == built.problem.notes[i]
              IN  SubSeq(text, Len(text) - Len(note) + 1, Len(text)) = note

\* A problem with a location and two notes is written in eight lines.
C22_Witness ==
    /\ Displayed
    /\ WrittenBy = <<"write_headline", "write_file", "write_spacer", "write_source",
                     "write_message", "write_spacer", "note", "note">>

\* The width every gutter of the call must have: the digits of the line
\* number of the offending value when the tree gives one, 1 otherwise.
GutterOfCall ==
    IF args.document.some /\ args.file_path.some /\ Resolves(args.problem.instance_path)
    THEN IF args.document.root = Padded THEN 2 ELSE 1
    ELSE 1

\* The characters of a line before its gutter symbol (`--> `, ` | ` or ` = `).
GutterOf(text) ==
    LET symbols == { <<"-", "-", ">", " ">>, <<" ", "|", " ">>, <<" ", "=", " ">> }
        starts == { find(text, symbol).chars : symbol \in { s \in symbols : find(text, s).some } }
    IN  CHOOSE first \in starts : \A other \in starts : first <= other

\* C23: with or without a known line number, every structural line (file,
\* spacer, source, underline, notes) has a gutter of the same width: the
\* number of decimal digits of the line number, or 1 without a line number.
C23_GuttersHaveOneWidth ==
    Displayed =>
        \A i \in 2..Len(built.out) : GutterOf(built.out[i].text) = GutterOfCall

\* C29: every problem has range.start <= range.end = the length of its
\* source line, and the padding and the carets of its underline line do not
\* reach past the end of the source line.
C29_UnderlineWithinSourceLine ==
    /\ Built =>
          /\ built.problem.range.start <= built.problem.range.end
          /\ built.problem.range.end = len(built.problem.source)
    /\ Displayed =>
          \A i, j \in 1..Len(built.out) :
              (built.out[i].by = "write_source" /\ built.out[j].by = "write_message") =>
                  LET underline == built.out[j].text
                      carets == { k \in 1..Len(underline) : underline[k] = "^" }
                  IN  \A k \in carets :
                         k - GutterOf(underline) <= Len(built.out[i].text) - GutterOf(built.out[i].text)


\* ------------------------------------------------- style.rs and error.rs

MaxMessage == 3
MaxChain == 3

\* The messages normalize_error is called with.
Messages == UNION { [1..n -> {"M", "b", " ", ".", "!"}] : n \in 0..MaxMessage }

RECURSIVE trim(_)
\* str::trim: the text without the white space at its two ends.
trim(s) ==
    IF s = <<>> THEN s
    ELSE IF Head(s) \in {" ", "\t", "\n", "\r"} THEN trim(Tail(s))
    ELSE IF s[Len(s)] \in {" ", "\t", "\n", "\r"} THEN trim(SubSeq(s, 1, Len(s) - 1))
    ELSE s

\* normalize_error: `chars` walks the trimmed message; next() takes its first
\* character, next_back() the last of what is left (none when nothing is
\* left), which is kept unless it is one of `.`, `?`, `!`; as_str() is
\* what is between.
normalize_error(text) ==
    LET chars == trim(text)
        first_char == IF chars = <<>> THEN <<>> ELSE <<to_lowercase(Head(chars))>>
        left == IF chars = <<>> THEN <<>> ELSE Tail(chars)
        last_char == IF left # <<>> /\ left[Len(left)] \notin {".", "?", "!"}
                     THEN <<left[Len(left)]>> ELSE <<>>
        middle == IF left = <<>> THEN <<>> ELSE SubSeq(left, 1, Len(left) - 1)
    IN  first_char \o middle \o last_char

\* A call of normalize_error.
Normalize ==
    /\ args.fn = "normalize_error"
    /\ built.fn = "none"
    /\ built' = [fn |-> "normalize_error", out |-> normalize_error(args.message)]
    /\ UNCHANGED <<paths, write_path, fs, proc, args>>

\* A call of normalize_error with the result of the call before.
NormalizeAgain ==
    /\ built.fn = "normalize_error"
    /\ built' = [fn |-> "normalize_again", first |-> built.out,
                 out |-> normalize_error(built.out)]
    /\ UNCHANGED <<paths, write_path, fs, proc, args>>

\* The styles: Inline, Stacked with an indent, and Custom with a closure that
\* writes `<i>:<e>;` and fails at the indices of `fails`.
Styles ==
    {[style |-> "Inline"]}
    \cup {[style |-> "Stacked", indent |-> by] : by \in {0, 2}}
    \cup {[style |-> "Custom", fails |-> fails] : fails \in SUBSET (1..MaxChain)}

\* The chains of errors: the error first, then its source(), and so on to the
\* error that has none; each error is the text its Display writes.
Chains == UNION { [1..n -> {<<"a">>, <<"b", "c">>}] : n \in 1..MaxChain }

\* fmt_fn: what the closure of the style does with the index and the error
\* (BOLD, RED and RESET are empty in the unstyled build, modelled here).
fmt_fn(style, i, e) ==
    CASE style.style = "Inline" ->
           [ok |-> TRUE, text |-> <<" ", "-", "-", "-", "-", "-", " ">> \o Decimal(i) \o <<".", " ">> \o e]
      [] style.style = "Stacked" ->
           [ok |-> TRUE, text |-> repeat(" ", style.indent) \o Decimal(i) \o <<".", " ">> \o e \o <<"\n">>]
      [] style.style = "Custom" ->
           IF i \in style.fails THEN [ok |-> FALSE, text |-> <<>>]
           ELSE [ok |-> TRUE, text |-> Decimal(i) \o <<":">> \o e \o <<";">>]

RECURSIVE display_ignoring(_, _, _, _, _)
\* Faulty variant: a failure of the formatter is dropped and the loop goes on.
display_ignoring(style, current_error, index, output, calls) ==
    IF current_error = <<>>
    THEN [ok |-> TRUE, output |-> output, calls |-> calls]
    ELSE display_ignoring(style, Tail(current_error), index + 1,
                          output \o fmt_fn(style, index, Head(current_error)).text,
                          Append(calls, <<index, Head(current_error)>>))

RECURSIVE display(_, _, _, _, _)
\* ErrorStackStyle::display from the top of its loop: `current_error` is the
\* rest of the chain (empty for None), `calls` lists the calls of the
\* formatter so far.
display(style, current_error, index, output, calls) ==
    IF current_error = <<>>
    THEN [ok |-> TRUE, output |-> output, calls |-> calls]
    ELSE IF fmt_fn(style, index, Head(current_error)).ok
    THEN display(style, Tail(current_error), index + 1,
                 output \o fmt_fn(style, index, Head(current_error)).text,
                 Append(calls, <<index, Head(current_error)>>))
    ELSE [ok |-> FALSE, output |-> <<>>, calls |-> Append(calls, <<index, Head(current_error)>>)]

\* A call of ErrorStackStyle::display.
Display ==
    /\ args.fn = "display"
    /\ built.fn = "none"
    /\ built' = [fn |-> "display"] @@ display(args.style, args.source, 1, <<>>, <<>>)
    /\ UNCHANGED <<paths, write_path, fs, proc, args>>

MaxProblems == 2

\* The aggregates `validate` returns: the file path it was given and one
\* problem or more, each known here by the kind it reports.
Aggregates ==
    [file_path : {NoFilePath, SomeFilePath("a.json")},
     problems : UNION { [1..n -> {"Minimum", "FalseSchema"}] : n \in 1..MaxProblems }]

\* The line both Display implementations of ValidationErrors write about the
\* whole: the path (or JSON) between backticks and the number of problems.
summary(errors) ==
    <<"backtick">>
    \o (IF errors.file_path.some THEN <<errors.file_path.path>> ELSE <<"J", "S", "O", "N">>)
    \o <<"backtick", " ", "g", "e", "n", "e", "r", "a", "t", "e", "d", " ">>
    \o Decimal(Len(errors.problems))
    \o <<" ", "e", "r", "r", "o", "r", "s">>

\* Display for ValidationErrors of json.rs, one entry for each writeln!: the
\* problems, then the line about the whole.
ValidationErrors_fmt(errors) ==
    [i \in 1..Len(errors.problems) |-> [write |-> "problem", problem |-> errors.problems[i]]]
    \o <<[write |-> "summary", text |-> summary(errors)]>>

\* Display for ValidationErrors of json/mod.rs: the line about the whole,
\* ending in a colon, then the problems.
ValidationErrors_fmt_mod(errors) ==
    <<[write |-> "summary", text |-> summary(errors) \o <<":">>]>>
    \o [i \in 1..Len(errors.problems) |-> [write |-> "problem", problem |-> errors.problems[i]]]

\* An aggregate is displayed by the implementation of json.rs.
ErrorsFmt ==
    /\ args.fn = "errors"
    /\ built.fn = "none"
    /\ built' = [fn |-> "errors", out |-> ValidationErrors_fmt(args.errors)]
    /\ UNCHANGED <<paths, write_path, fs, proc, args>>

\* An aggregate is displayed by the implementation of json/mod.rs.
ErrorsFmtMod ==
    /\ args.fn = "errors"
    /\ built.fn = "none"
    /\ built' = [fn |-> "errors", out |-> ValidationErrors_fmt_mod(args.errors)]
    /\ UNCHANGED <<paths, write_path, fs, proc, args>>

\* ------------------------------------------------- positioned parser

MaxItems == 2

\* The values of the texts that are parsed: scalars, arrays of scalars, and
\* arrays and objects that hold those.
ParsedValues ==
    LET scalars == {JNull, JNum(7), JNum(12), JStr(<<"é">>)}
        arrays == {JArr(items) : items \in UNION { [1..n -> scalars] : n \in 0..MaxItems }}
        flat == scalars \cup arrays
    IN  flat
        \cup {JArr(<<inner, JNum(7)>>) : inner \in arrays}
        \cup {JObj(<<>>)}
        \cup {JObj(<<[key |-> <<"k">>, value |-> v]>>) : v \in flat}
        \cup {JObj(<<[key |-> <<"k">>, value |-> v],
                     [key |-> <<"é">>, value |-> JNum(12)]>>) : v \in flat}

RECURSIVE Text(_, _)
\* A JSON text of a value, with the white space `gap` at every place the
\* grammar allows white space inside it.
Text(value, gap) ==
    CASE value.t = "null" -> <<"n", "u", "l", "l">>
      [] value.t = "num" -> Decimal(value.n)
      [] value.t = "str" -> quoted(value.s)
      [] value.t = "arr" ->
            <<"[">> \o gap
            \o Join([i \in 1..Len(value.items) |-> Text(value.items[i], gap) \o gap],
                    <<",">> \o gap)
            \o <<"]">>
      [] OTHER ->
            <<"{">> \o gap
            \o Join([i \in 1..Len(value.items) |->
                       quoted(value.items[i].key) \o gap \o <<":">> \o gap
                       \o Text(value.items[i].value, gap) \o gap],
                    <<",">> \o gap)
            \o <<"}">>

\* The calls of the parser: the texts of the values, with and without white
\* space around them, and three texts that are not JSON.
ParseCalls ==
    {[fn |-> "parse", valid |-> TRUE, value |-> value, gap |-> gap,
      text |-> around \o Text(value, gap) \o around] :
        value \in ParsedValues, gap \in {<<>>, <<" ">>, <<"\n", " ">>},
        around \in {<<>>, <<" ", "\n">>}}
    \cup {[fn |-> "parse", valid |-> FALSE, value |-> JNull, gap |-> <<>>, text |-> text] :
            text \in {<<"[", "7">>, <<"7", " ", "7">>, <<"{", "\"", "k", "\"", "}">>}}

RECURSIVE skip(_, _)
\* The first index from `i` on that holds no white space.
skip(text, i) ==
    IF i <= Len(text) /\ text[i] \in {" ", "\t", "\n", "\r"} THEN skip(text, i + 1) ELSE i

RECURSIVE string_end(_, _)
\* The index of the quote that closes the string whose characters start at
\* `i`, 0 when none does; a backslash takes the next character with it.
string_end(text, i) ==
    IF i > Len(text) THEN 0
    ELSE IF text[i] = "\"" THEN i
    ELSE IF text[i] = "\\" THEN string_end(text, i + 2)
    ELSE string_end(text, i + 1)

RECURSIVE number_end(_, _)
\* The first index from `i` on that holds no digit.
number_end(text, i) ==
    IF i <= Len(text) /\ text[i] \in {Digits[d] : d \in 1..Len(Digits)}
    THEN number_end(text, i + 1) ELSE i

\* Faulty variant: offset and length count characters, not bytes.
span_chars(text, start, end) ==
    LET breaks == {k \in 1..(start - 1) : text[k] = "\n"} IN
    [offset |-> start - 1,
     length |-> end - start,
     line |-> 1 + Cardinality(breaks),
     column |-> start - (IF breaks = {} THEN 0 ELSE CHOOSE k \in breaks : \A l \in breaks : l <= k)]

\* The position of the value that holds the characters from `start` up to
\* `end`: the byte offset of its start, its length in bytes, and the line
\* and column of its start (column 1 after every "\n").
span(text, start, end) ==
    LET breaks == {k \in 1..(start - 1) : text[k] = "\n"} IN
    [offset |-> len(SubSeq(text, 1, start - 1)),
     length |-> len(SubSeq(text, start, end - 1)),
     line |-> 1 + Cardinality(breaks),
     column |-> start - (IF breaks = {} THEN 0 ELSE CHOOSE k \in breaks : \A l \in breaks : l <= k)]

\* The scan of a value failed.
NoParse == [ok |-> FALSE, next |-> 0, node |-> Scalar(0, 0)]

Parsed(kind, position, children, next) ==
    [ok |-> TRUE, next |-> next,
     node |-> [kind |-> kind, position |-> position, children |-> children]]

RECURSIVE parse_value(_, _), parse_elements(_, _, _, _), parse_members(_, _, _, _)

\* One value from index `i` on: white space is skipped, the start is
\* recorded before the value is consumed and the end after.
parse_value(text, i) ==
    LET start == skip(text, i) IN
    IF start > Len(text) THEN NoParse
    ELSE CASE text[start] = "[" -> parse_elements(text, start, skip(text, start + 1), <<>>)
           [] text[start] = "{" -> parse_members(text, start, skip(text, start + 1), <<>>)
           [] text[start] = "\"" ->
                 IF string_end(text, start + 1) = 0 THEN NoParse
                 ELSE Parsed("string", span(text, start, string_end(text, start + 1) + 1), <<>>,
                             string_end(text, start + 1) + 1)
           [] number_end(text, start) > start ->
                 Parsed("number", span(text, start, number_end(text, start)), <<>>,
                        number_end(text, start))
           [] SubSeq(text, start, start + 3) = <<"n", "u", "l", "l">> ->
                 Parsed("null", span(text, start, start + 4), <<>>, start + 4)
           [] OTHER -> NoParse

\* The elements of the array opened at `open`, from the index `i` after the
\* white space; `elements` are those scanned so far.
parse_elements(text, open, i, elements) ==
    IF i > Len(text) THEN NoParse
    ELSE IF text[i] = "]" /\ elements = <<>>
    THEN Parsed("array", span(text, open, i + 1), <<>>, i + 1)
    ELSE LET element == parse_value(text, i)
             after == skip(text, element.next)
         IN  IF ~element.ok THEN NoParse
             ELSE IF after > Len(text) THEN NoParse
             ELSE IF text[after] = ","
             THEN parse_elements(text, open, skip(text, after + 1), Append(elements, element.node))
             ELSE IF text[after] = "]"
             THEN Parsed("array", span(text, open, after + 1), Append(elements, element.node),
                         after + 1)
             ELSE NoParse

\* The members of the object opened at `open`, in the order of the text; the
\* position of a key is recorded apart from the one of its value.
parse_members(text, open, i, members) ==
    IF i > Len(text) THEN NoParse
    ELSE IF text[i] = "}" /\ members = <<>>
    THEN Parsed("object", span(text, open, i + 1), <<>>, i + 1)
    ELSE IF text[i] # "\"" \/ string_end(text, i + 1) = 0 THEN NoParse
    ELSE LET close == string_end(text, i + 1)
             colon == skip(text, close + 1)
             member == parse_value(text, colon + 1)
             after == skip(text, member.next)
             all == Append(members, [key |-> SubSeq(text, i + 1, close - 1),
                                     key_position |-> span(text, i, close + 1),
                                     value |-> member.node])
         IN  IF colon > Len(text) THEN NoParse
             ELSE IF text[colon] # ":" THEN NoParse
             ELSE IF ~member.ok THEN NoParse
             ELSE IF after > Len(text) THEN NoParse
             ELSE IF text[after] = ","
             THEN parse_members(text, open, skip(text, after + 1), all)
             ELSE IF text[after] = "}"
             THEN Parsed("object", span(text, open, after + 1), all, after + 1)
             ELSE NoParse

\* parse: the tree of the text, or nothing when the text is not one JSON
\* value with nothing but white space around it.
parse(text) ==
    IF parse_value(text, 1).ok /\ skip(text, parse_value(text, 1).next) > Len(text)
    THEN [some |-> TRUE, node |-> parse_value(text, 1).node]
    ELSE NoNode

\* A call of the parser.
ParseText ==
    /\ args.fn = "parse"
    /\ built.fn = "none"
    /\ built' = [fn |-> "parse", tree |-> parse(args.text)]
    /\ UNCHANGED <<paths, write_path, fs, proc, args>>

InitText ==
    /\ paths = <<>>
    /\ write_path = "a.json"
    /\ fs = [q \in PathNames |-> NoFile]
    /\ proc = [p \in Procs |-> Idle]
    /\ \/ \E text \in Messages : args = [fn |-> "normalize_error", message |-> text]
       \/ \E style \in Styles, source \in Chains :
             args = [fn |-> "display", style |-> style, source |-> source]
       \/ \E errors \in Aggregates : args = [fn |-> "errors", errors |-> errors]
       \/ args \in ParseCalls
    /\ built = NoCall

NextText == Normalize \/ NormalizeAgain \/ Display \/ ErrorsFmt \/ ErrorsFmtMod \/ ParseText

SpecText == InitText /\ [][NextText]_vars

\* C26: normalize_error never returns a text that ends in `.`, `?` or `!`,
\* and normalising its result again changes nothing.
C26_NormalizeStripsAndIsIdempotent ==
    /\ (built.fn = "normalize_error" /\ built.out # <<>>) =>
           built.out[Len(built.out)] \notin {".", "?", "!"}
    /\ built.fn = "normalize_again" => built.out = built.first

\* The index of the first error of the chain the formatter of the call
\* fails at, one past the chain when it fails at none.
FirstFailure ==
    LET failing == { i \in 1..Len(args.source) :
                        args.style.style = "Custom" /\ i \in args.style.fails }
    IN  IF failing = {} THEN Len(args.source) + 1
        ELSE CHOOSE i \in failing : \A j \in failing : i <= j

\* C30: display formats one entry per error of the chain, outermost first
\* and numbered from 1, and ends with the error that has no source; at the
\* first failure of the formatter it returns the failure and formats no
\* later error.
C30_DisplayWalksChainUntilFailure ==
    built.fn = "display" =>
        LET n == Len(args.source)
            last == IF FirstFailure > n THEN n ELSE FirstFailure
        IN  /\ built.calls = [i \in 1..last |-> <<i, args.source[i]>>]
            /\ built.ok = (FirstFailure > n)
            /\ built.ok => built.output =
                  Concat([i \in 1..n |-> fmt_fn(args.style, i, args.source[i]).text])

\* A chain of three errors whose second fails to format: two calls, Err.
C30_Witness ==
    /\ built.fn = "display"
    /\ Len(args.source) = 3
    /\ ~built.ok
    /\ Len(built.calls) = 2


\* C24: the display of an aggregate writes the problems in their stored
\* order and then, as its last line, `<file> generated <N> errors`, with
\* JSON for the file when there is no file path.
C24_SummaryLineIsLast ==
    built.fn = "errors" =>
        LET n == Len(args.errors.problems) IN
        /\ Len(built.out) = n + 1
        /\ \A i \in 1..n : built.out[i] = [write |-> "problem", problem |-> args.errors.problems[i]]
        /\ built.out[n + 1].write = "summary"
        /\ built.out[n + 1].text =
              <<"backtick">>
              \o (IF args.errors.file_path.some THEN <<"a.json">> ELSE <<"J", "S", "O", "N">>)
              \o <<"backtick", " ", "g", "e", "n", "e", "r", "a", "t", "e", "d", " ">>
              \o Decimal(n) \o <<" ", "e", "r", "r", "o", "r", "s">>


\* The characters of a text that a byte offset and a byte length select.
Slice(text, position) ==
    LET inside == { i \in 1..Len(text) :
                      /\ len(SubSeq(text, 1, i - 1)) >= position.offset
                      /\ len(SubSeq(text, 1, i)) <= position.offset + position.length }
    IN  [k \in 1..Cardinality(inside) |->
            text[k - 1 + CHOOSE i \in inside : \A j \in inside : i <= j]]

RECURSIVE PositionsOf(_)
\* The positions of the nodes of a tree, the keys of its objects apart.
PositionsOf(node) ==
    <<node.position>>
    \o Concat([i \in 1..Len(node.children) |->
                 IF node.kind = "object"
                 THEN PositionsOf(node.children[i].value)
                 ELSE PositionsOf(node.children[i])])

RECURSIVE SlicesAreLiteral(_, _)
\* Every node of the tree under `node` is sliced to the text of the value it
\* was parsed from, and every key to its quoted name.
SlicesAreLiteral(node, value) ==
    /\ Slice(args.text, node.position) = Text(value, args.gap)
    /\ node.kind = CASE value.t = "null" -> "null" [] value.t = "num" -> "number"
                     [] value.t = "str" -> "string" [] value.t = "arr" -> "array"
                     [] OTHER -> "object"
    /\ Len(node.children) = Len(value.items)
    /\ \A i \in 1..Len(value.items) :
          IF value.t = "obj"
          THEN /\ Slice(args.text, node.children[i].key_position) = quoted(value.items[i].key)
               /\ SlicesAreLiteral(node.children[i].value, value.items[i].value)
          ELSE SlicesAreLiteral(node.children[i], value.items[i])

\* C25: parsing a valid JSON text finds one root, and only one node, whose
\* span covers the whole trimmed text, and the text sliced by the offset and
\* length of any node is the literal text of that node.
C25_ParserRoundTrip ==
    (built.fn = "parse" /\ args.valid) =>
        /\ built.tree.some
        /\ Slice(args.text, built.tree.node.position) = Trimmed(args.text)
        /\ Cardinality({ i \in 1..Len(PositionsOf(built.tree.node)) :
                            /\ PositionsOf(built.tree.node)[i].offset = built.tree.node.position.offset
                            /\ PositionsOf(built.tree.node)[i].length = built.tree.node.position.length }) = 1
        /\ SlicesAreLiteral(built.tree.node, args.value)

\* An array on several lines, with white space around it, whose second
\* element follows a string of more bytes than characters.
C25_Witness ==
    /\ built.fn = "parse"
    /\ args.valid
    /\ built.tree.some
    /\ built.tree.node.kind = "array"
    /\ built.tree.node.position.offset > 0
    /\ Len(built.tree.node.children) = 2
    /\ built.tree.node.children[1].kind = "string"
    /\ built.tree.node.children[2].position.line > 1

====
